---- MODULE Spec2Model ----
(***************************************************************************)
(* Stock-transition detection and notification fanout of the OVH inventory *)
(* checker (src/checker), together with the API handlers that write the    *)
(* configuration and the webhook table the checker reads (src/api).        *)
(*                                                                         *)
(* Time is a count of seconds.  Each persistence call is one transaction   *)
(* and reads the clock as NOW() does; the clock advances at the two        *)
(* asyncio.sleep calls of the scheduler.  Tables are sequences in          *)
(* insertion order, so a row's position is its autoincrement id order.     *)
(* Optional values are None (the empty tuple) or Some(v) (a 1-tuple).      *)
(***************************************************************************)
EXTENDS Integers, Sequences, FiniteSets, TLC

\* ------------------------------------------------------------------ bounds
\* number of check cycles the scheduler loop is followed for
MaxCycles == 3
\* number of API requests (admin or user) served while the checker runs
MaxApiCalls == 1
\* number of persistence calls that raise while the checker runs
MaxFaults == 1

\* ------------------------------------------------------- program constants
settings_check_interval_seconds == 120
settings_notification_threshold_minutes == 60
MinCheckInterval == 30
MaxCheckInterval == 3600
MinThreshold == 1
MaxThreshold == 1440
PlanPauseSeconds == 1
SecondsPerMinute == 60

\* ---------------------------------------------------------------- Optional
None == <<>>
Some(v) == <<v>>

max(a, b) == IF a >= b THEN a ELSE b
min(a, b) == IF a <= b THEN a ELSE b

\* ------------------------------------------------------------------- URLs
\* A URL is its scheme, its host name and the segments of its path (all in
\* lower case); "h in url" of the source is a substring test, which on this
\* representation is: h is the host or h is one of the path segments.
UrlDiscord == [scheme |-> "https", host |-> "discord.com", path |-> <<"api", "webhooks", "1">>]
UrlSlack == [scheme |-> "https", host |-> "hooks.slack.com", path |-> <<"services", "t1">>]
UrlOther == [scheme |-> "https", host |-> "example.com", path |-> <<"hook">>]
UrlHttp == [scheme |-> "http", host |-> "discord.com", path |-> <<"api", "webhooks", "1">>]
UrlLoopback == [scheme |-> "https", host |-> "localhost", path |-> <<"discord.com">>]
\* the URLs submitted to the API while the checker runs
Urls == {UrlOther, UrlHttp, UrlLoopback}

InUrl(h, url) == h = url.host \/ \E i \in DOMAIN url.path : url.path[i] = h

\* socket.getaddrinfo: the addresses a host name resolves to, each given by
\* the class the ipaddress module puts it in.
getaddrinfo(hostname) ==
    CASE hostname = "discord.com" -> {"global"}
      [] hostname = "hooks.slack.com" -> {"global"}
      [] hostname = "example.com" -> {"global"}
      [] hostname = "localhost" -> {"loopback"}
      [] OTHER -> {}

_is_private_ip(ip) ==
    \/ ip \in {"private", "loopback", "reserved", "link_local", "multicast"}
    \/ ip # "global"

_resolve_and_validate_host(hostname) ==
    /\ getaddrinfo(hostname) # {}
    /\ \A ip \in getaddrinfo(hostname) : ~_is_private_ip(ip)

DISCORD_HOSTS == {"discord.com", "discordapp.com"}
SLACK_HOSTS == {"hooks.slack.com"}

detect_webhook_type(url) ==
    IF \E h \in DISCORD_HOSTS : InUrl(h, url) THEN "discord"
    ELSE IF \E h \in SLACK_HOSTS : InUrl(h, url) THEN "slack"
    ELSE "unknown"

\* WebhookNotifier.validate_webhook_url (webhook_type not given): TRUE iff
\* the URL is accepted.  No handler of the repository calls it.
WebhookNotifier_validate_webhook_url(url) ==
    /\ url.scheme = "https"
    /\ detect_webhook_type(url) # "unknown"
    /\ _resolve_and_validate_host(url.host)

\* UserWebhookCreate.validate_webhook_url, the validator of the API model:
\* TRUE iff the request body is accepted.
UserWebhookCreate_validate_webhook_url(v) ==
    /\ v.scheme = "https"
    /\ \E h \in {"discord.com", "discordapp.com", "hooks.slack.com"} : InUrl(h, v)

\* --------------------------------------------------------- static tables
monitored_plans ==
    << [plan_code |-> "vps-1", subsidiary |-> "US", enabled |-> TRUE],
       [plan_code |-> "vps-2", subsidiary |-> "US", enabled |-> FALSE],
       [plan_code |-> "vps-1", subsidiary |-> "FR", enabled |-> TRUE],
       [plan_code |-> "vps-1", subsidiary |-> "DE", enabled |-> TRUE],
       [plan_code |-> "vps-1", subsidiary |-> "CA", enabled |-> TRUE],
       [plan_code |-> "vps-2", subsidiary |-> "CA", enabled |-> TRUE],
       [plan_code |-> "vps-3", subsidiary |-> "CA", enabled |-> FALSE],
       [plan_code |-> "vps-1", subsidiary |-> "GB", enabled |-> TRUE] >>

\* User 3 has been deactivated.
users ==
    { [id |-> 1, is_active |-> TRUE],
      [id |-> 2, is_active |-> TRUE],
      [id |-> 3, is_active |-> FALSE],
      [id |-> 4, is_active |-> TRUE] }

\* User 1 holds an all-region and an FR subscription to the plan; user 2 is
\* subscribed for US, and for FR with notifications off.
user_plan_subscriptions ==
    { [user_id |-> 1, plan_code |-> "vps-1", subsidiary |-> None, notify_on_available |-> TRUE],
      [user_id |-> 2, plan_code |-> "vps-1", subsidiary |-> Some("US"), notify_on_available |-> TRUE],
      [user_id |-> 1, plan_code |-> "vps-1", subsidiary |-> Some("FR"), notify_on_available |-> TRUE],
      [user_id |-> 2, plan_code |-> "vps-1", subsidiary |-> Some("FR"), notify_on_available |-> FALSE],
      [user_id |-> 3, plan_code |-> "vps-1", subsidiary |-> None, notify_on_available |-> TRUE],
      [user_id |-> 4, plan_code |-> "vps-1", subsidiary |-> Some("FR"), notify_on_available |-> TRUE] }

\* ------------------------------------------------------ upstream responses
\* One entry of the "datacenters" list of the upstream answer; a missing key
\* is None.
DcInfo(dc, code, status) == [datacenter |-> dc, code |-> code, linuxStatus |-> status]

InStock(dc) == DcInfo(Some(dc), Some(dc), Some("available"))
OutOfStock(dc) == DcInfo(Some(dc), Some(dc), Some("out-of-stock"))

\* What fetch_availability can return for the monitored plan: None (network
\* error, non-200 status, undecodable body) or the decoded document.
Responses ==
    { None,
      Some([datacenters |-> << >>]),
      Some([datacenters |-> << InStock("dc1"), OutOfStock("dc2") >>]),
      Some([datacenters |-> << OutOfStock("dc1"), InStock("dc2") >>]) }

\* The same for a plan of a subsidiary whose catalogue lists one datacenter.
ResponsesOneDatacenter ==
    { None,
      Some([datacenters |-> << >>]),
      Some([datacenters |-> << InStock("dc1") >>]),
      Some([datacenters |-> << OutOfStock("dc1") >>]) }

\* The same for a plan of a subsidiary whose answer leaves keys out: two
\* datacenters listed without their "datacenter" name, or one listed
\* without its "code".
ResponsesKeysMissing ==
    { None,
      Some([datacenters |-> << DcInfo(None, Some("dc1"), Some("available")),
                               DcInfo(None, Some("dc2"), Some("out-of-stock")) >>]),
      Some([datacenters |-> << DcInfo(Some("dc3"), None, Some("out-of-stock")) >>]),
      Some([datacenters |-> << DcInfo(Some("dc3"), None, Some("available")) >>]) }

\* fetch_availability: what the GET for the plan in the subsidiary can return.
fetch_availability(plan, subsidiary) ==
    IF subsidiary = "US" THEN Responses
    ELSE IF subsidiary = "GB" THEN ResponsesKeysMissing
    ELSE ResponsesOneDatacenter

\* What one webhook POST can end in: an HTTP status, or an exception raised
\* by the client (connection error, timeout).
HttpOutcomes == {"204", "429", "ClientError"}

\* Settings an administrator submits (stored as their decimal strings).
CheckerSettings ==
    { [check_interval_seconds |-> "3540", notification_threshold_minutes |-> "60"],
      [check_interval_seconds |-> "3600", notification_threshold_minutes |-> "61"],
      [check_interval_seconds |-> "30", notification_threshold_minutes |-> "1"] }

VARIABLES
    now,                        \* the clock, in seconds
    config,                     \* table config: key -> Optional value
    inventory_status,           \* table inventory_status
    out_of_stock_tracking,      \* table out_of_stock_tracking
    datacenter_locations,       \* table datacenter_locations (its keys)
    notification_history,       \* table notification_history
    user_notification_history,  \* table user_notification_history
    user_webhooks,              \* table user_webhooks
    http_log,                   \* the webhook POSTs issued so far
    pc,                         \* position of the scheduler
    plans,                      \* run_check_cycle: plans still to check
    availabilities,             \* check_plan: parsed entries still to process
    avail,                      \* check_plan: the entry in progress
    was_available,              \* check_plan: Optional BOOLEAN
    out_of_stock_minutes,       \* check_plan: Optional minutes
    notification_threshold,     \* check_plan: threshold read for the gate
    subscribed_users,           \* send_notifications_to_all: rows still to serve
    check_interval,             \* run_single_subsidiary_mode: interval read
    cycles,                     \* completed check cycles
    api_calls,                  \* API requests served
    entries_seen,               \* entries taken from parsed batches
    gate_log,                   \* history: gating decisions taken
    fanouts,                    \* history: calls of send_notifications_to_all
    instance,                   \* OVHChecker.subsidiary of the running scheduler
    wake,                       \* the time its asyncio.sleep in progress ends
    fanout_id,                  \* the call of send_notifications_to_all it is in
    parked,                     \* the other scheduler processes, each at its position
    faults                      \* persistence calls that raised, processes killed

storeVars == <<config, inventory_status, out_of_stock_tracking, datacenter_locations,
               notification_history, user_notification_history, user_webhooks>>
localVars == <<plans, availabilities, avail, was_available, out_of_stock_minutes,
               notification_threshold, subscribed_users, check_interval>>
histVars == <<cycles, api_calls, entries_seen, gate_log, fanouts>>
procVars == <<instance, wake, fanout_id, parked, faults>>
vars == <<now, http_log, pc, storeVars, localVars, histVars, procVars>>

\* the subsidiary the running scheduler is bound to
Subsidiary == instance

\* ------------------------------------------------------------ conversions
\* The decimal strings the model stores, with their values.
Numerals ==
    { <<"0", 0>>, <<"1", 1>>, <<"30", 30>>, <<"60", 60>>, <<"61", 61>>,
      <<"58", 58>>, <<"3540", 3540>>, <<"3600", 3600>>, <<"7200", 7200>> }

\* Python's int(s): Some(n), or None where it raises ValueError.
int(s) ==
    IF \E p \in Numerals : p[1] = s
    THEN Some((CHOOSE p \in Numerals : p[1] = s)[2])
    ELSE None

\* ----------------------------------------------------------------- config
ConfigKeys == {"check_interval_seconds", "notification_threshold_minutes", "discord_webhook_url"}

get_config(key) == config[key]

set_config(key, value) == [config EXCEPT ![key] = Some(value)]

\* A get_check_interval without the clamp of line 180.
get_check_interval_unclamped ==
    LET interval == get_config("check_interval_seconds") IN
    IF interval # None /\ interval[1] # "" /\ int(interval[1]) # None
    THEN int(interval[1])[1]
    ELSE settings_check_interval_seconds

\* A get_notification_threshold that falls back to the lower end of the
\* range instead of the static default.
get_notification_threshold_floor ==
    LET threshold == get_config("notification_threshold_minutes") IN
    IF threshold # None /\ threshold[1] # "" /\ int(threshold[1]) # None
    THEN max(MinThreshold, min(MaxThreshold, int(threshold[1])[1]))
    ELSE MinThreshold

\* The integer a stored setting yields: clamp(int(value)) when the value is
\* a non-empty string that parses, the static default otherwise.
get_check_interval ==
    LET interval == get_config("check_interval_seconds") IN
    IF interval # None /\ interval[1] # "" /\ int(interval[1]) # None
    THEN max(MinCheckInterval, min(MaxCheckInterval, int(interval[1])[1]))
    ELSE settings_check_interval_seconds

get_notification_threshold ==
    LET threshold == get_config("notification_threshold_minutes") IN
    IF threshold # None /\ threshold[1] # "" /\ int(threshold[1]) # None
    THEN max(MinThreshold, min(MaxThreshold, int(threshold[1])[1]))
    ELSE settings_notification_threshold_minutes

\* ------------------------------------------------------------------ plans
\* A query without the enabled condition of its WHERE clause.
get_monitored_plans_with_disabled(subsidiary) ==
    SelectSeq(monitored_plans, LAMBDA p : p.subsidiary = subsidiary)

get_monitored_plans(subsidiary) ==
    SelectSeq(monitored_plans, LAMBDA p : p.enabled /\ p.subsidiary = subsidiary)

\* ------------------------------------------------------- parse_availability
dict_get(value, default) == IF value = None THEN default ELSE value[1]

parse_availability(data) ==
    IF data = None THEN << >>
    ELSE LET datacenters == data[1].datacenters IN
         [ i \in DOMAIN datacenters |->
             LET linux_status == dict_get(datacenters[i].linuxStatus, "out-of-stock") IN
             [ datacenter |-> dict_get(datacenters[i].datacenter, "unknown"),
               datacenter_code |-> dict_get(datacenters[i].code, ""),
               is_available |-> (linux_status = "available"),
               linux_status |-> linux_status ] ]

\* ------------------------------------------------------- inventory_status
SameKey(r, plan_code, datacenter, subsidiary) ==
    /\ r.plan_code = plan_code
    /\ r.datacenter = datacenter
    /\ r.subsidiary = subsidiary

\* A save that skips a reading equal to the last one stored for the key (a
\* dedup cache in place of the audit log).
save_inventory_status_on_change(plan_code, subsidiary, datacenter, datacenter_code, is_available) ==
    LET idx == { i \in DOMAIN inventory_status :
                   SameKey(inventory_status[i], plan_code, datacenter, subsidiary) }
    IN IF idx # {} /\ inventory_status[CHOOSE i \in idx : \A j \in idx : j <= i].is_available
                        = is_available
       THEN inventory_status
       ELSE Append(inventory_status,
                   [ plan_code |-> plan_code, subsidiary |-> subsidiary,
                     datacenter |-> datacenter, datacenter_code |-> datacenter_code,
                     is_available |-> is_available, checked_at |-> now ])

save_inventory_status(plan_code, subsidiary, datacenter, datacenter_code, is_available) ==
    Append(inventory_status,
           [ plan_code |-> plan_code, subsidiary |-> subsidiary, datacenter |-> datacenter,
             datacenter_code |-> datacenter_code, is_available |-> is_available,
             checked_at |-> now ])

\* A get_last_status whose WHERE clause leaves out the subsidiary.
get_last_status_any_subsidiary(plan_code, datacenter, subsidiary) ==
    LET idx == { i \in DOMAIN inventory_status :
                   /\ inventory_status[i].plan_code = plan_code
                   /\ inventory_status[i].datacenter = datacenter }
    IN IF idx = {} THEN None
       ELSE LET last == CHOOSE i \in idx : \A j \in idx :
                           \/ inventory_status[j].checked_at < inventory_status[i].checked_at
                           \/ /\ inventory_status[j].checked_at = inventory_status[i].checked_at
                              /\ j <= i
            IN Some([ is_available |-> inventory_status[last].is_available,
                      checked_at |-> inventory_status[last].checked_at ])

\* ORDER BY checked_at DESC LIMIT 1; of rows stamped within the same second
\* the one inserted last is the latest.
get_last_status(plan_code, datacenter, subsidiary) ==
    LET idx == { i \in DOMAIN inventory_status :
                   SameKey(inventory_status[i], plan_code, datacenter, subsidiary) }
    IN IF idx = {} THEN None
       ELSE LET last == CHOOSE i \in idx : \A j \in idx :
                           \/ inventory_status[j].checked_at < inventory_status[i].checked_at
                           \/ /\ inventory_status[j].checked_at = inventory_status[i].checked_at
                              /\ j <= i
            IN Some([ is_available |-> inventory_status[last].is_available,
                      checked_at |-> inventory_status[last].checked_at ])

\* -------------------------------------------------- out_of_stock_tracking
IsOpen(r, plan_code, datacenter, subsidiary) ==
    /\ SameKey(r, plan_code, datacenter, subsidiary)
    /\ r.returned_to_stock_at = None

OpenIds(plan_code, datacenter, subsidiary) ==
    { i \in DOMAIN out_of_stock_tracking :
        IsOpen(out_of_stock_tracking[i], plan_code, datacenter, subsidiary) }

\* A track_out_of_stock without the select: a row is inserted on every call.
track_out_of_stock_unconditional(plan_code, datacenter, subsidiary) ==
    Append(out_of_stock_tracking,
           [ id |-> Len(out_of_stock_tracking) + 1,
             plan_code |-> plan_code, subsidiary |-> subsidiary,
             datacenter |-> datacenter, out_of_stock_since |-> now,
             notified |-> FALSE, returned_to_stock_at |-> None ])

\* A track_out_of_stock that restarts the open row of the key at the current
\* time instead of leaving it alone.
track_out_of_stock_restart(plan_code, datacenter, subsidiary) ==
    IF OpenIds(plan_code, datacenter, subsidiary) = {}
    THEN Append(out_of_stock_tracking,
                [ id |-> Len(out_of_stock_tracking) + 1,
                  plan_code |-> plan_code, subsidiary |-> subsidiary,
                  datacenter |-> datacenter, out_of_stock_since |-> now,
                  notified |-> FALSE, returned_to_stock_at |-> None ])
    ELSE [ i \in DOMAIN out_of_stock_tracking |->
             IF i \in OpenIds(plan_code, datacenter, subsidiary)
             THEN [out_of_stock_tracking[i] EXCEPT !.out_of_stock_since = now]
             ELSE out_of_stock_tracking[i] ]

\* The table after track_out_of_stock: a row is inserted only when the
\* select finds no open row of the key.
track_out_of_stock(plan_code, datacenter, subsidiary) ==
    IF OpenIds(plan_code, datacenter, subsidiary) = {}
    THEN Append(out_of_stock_tracking,
                [ id |-> Len(out_of_stock_tracking) + 1,
                  plan_code |-> plan_code, subsidiary |-> subsidiary,
                  datacenter |-> datacenter, out_of_stock_since |-> now,
                  notified |-> FALSE, returned_to_stock_at |-> None ])
    ELSE out_of_stock_tracking

\* A mark_returned_to_stock that reads the duration but leaves out the UPDATE.
mark_returned_to_stock_without_update(plan_code, datacenter, subsidiary) ==
    LET open == OpenIds(plan_code, datacenter, subsidiary)
        first == CHOOSE i \in open : \A j \in open : i <= j
        seconds == now - out_of_stock_tracking[first].out_of_stock_since
    IN [ minutes |-> IF open = {} \/ seconds = 0 THEN None
                     ELSE Some(seconds \div SecondsPerMinute),
         tracking |-> out_of_stock_tracking ]

\* mark_returned_to_stock: the minutes it returns and the table it leaves.
\* minutes is int(epoch(now - since) / 60) of the first open row, and None
\* when there is no open row or the real quotient is 0.0 (falsy), which is
\* when no second has elapsed.
mark_returned_to_stock(plan_code, datacenter, subsidiary) ==
    LET open == OpenIds(plan_code, datacenter, subsidiary)
        first == CHOOSE i \in open : \A j \in open : i <= j
        seconds == now - out_of_stock_tracking[first].out_of_stock_since
    IN [ minutes |-> IF open = {} \/ seconds = 0 THEN None
                     ELSE Some(seconds \div SecondsPerMinute),
         tracking |-> [ i \in DOMAIN out_of_stock_tracking |->
                          IF i \in open
                          THEN [out_of_stock_tracking[i] EXCEPT !.returned_to_stock_at = Some(now)]
                          ELSE out_of_stock_tracking[i] ] ]

\* ------------------------------------------------------------ subscribers
\* A query without the subsidiary condition of its WHERE clause.
get_users_subscribed_to_plan_any_region(plan_code, subsidiary) ==
    { [ user_id |-> t[1].id, webhook_id |-> user_webhooks[t[3]].id,
        webhook_url |-> user_webhooks[t[3]].webhook_url ] :
        t \in
          { t \in users \X user_plan_subscriptions \X DOMAIN user_webhooks :
              /\ t[2].user_id = t[1].id
              /\ user_webhooks[t[3]].user_id = t[1].id
              /\ user_webhooks[t[3]].is_active
              /\ t[2].plan_code = plan_code
              /\ t[2].notify_on_available
              /\ t[1].is_active } }

\* The rows of get_users_subscribed_to_plan: user x subscription x active
\* webhook, DISTINCT on (user_id, webhook_id, webhook_url).
get_users_subscribed_to_plan(plan_code, subsidiary) ==
    { [ user_id |-> t[1].id, webhook_id |-> user_webhooks[t[3]].id,
        webhook_url |-> user_webhooks[t[3]].webhook_url ] :
        t \in
          { t \in users \X user_plan_subscriptions \X DOMAIN user_webhooks :
              /\ t[2].user_id = t[1].id
              /\ user_webhooks[t[3]].user_id = t[1].id
              /\ user_webhooks[t[3]].is_active
              /\ t[2].plan_code = plan_code
              /\ (t[2].subsidiary = None \/ t[2].subsidiary = Some(subsidiary))
              /\ t[2].notify_on_available
              /\ t[1].is_active } }

\* The orders in which the query may return a set of rows (no ORDER BY).
Orderings(S) ==
    { q \in [1..Cardinality(S) -> S] : \A i, j \in DOMAIN q : i # j => q[i] # q[j] }

\* ------------------------------------------------- send_discord_notification
\* The (success, error) pair for the outcome of the POST.
send_discord_notification(outcome) ==
    IF outcome \in {"200", "204"}
    THEN [success |-> TRUE, error |-> None]
    ELSE IF outcome = "ClientError"
    THEN [success |-> FALSE, error |-> Some("Failed to send Discord notification")]
    ELSE [success |-> FALSE, error |-> Some("Discord API returned")]

\* The gate with a strict comparison.
ShouldNotify_strict(minutes, threshold) ==
    /\ minutes # None
    /\ minutes[1] # 0
    /\ minutes[1] > threshold

\* Line 131 of check_plan: the gate in front of the fanout.
ShouldNotify(minutes, threshold) ==
    /\ minutes # None
    /\ minutes[1] # 0
    /\ minutes[1] >= threshold

\* ------------------------------------------------------------ initial state
NoEntry == [datacenter |-> "", datacenter_code |-> "", is_available |-> FALSE, linux_status |-> ""]

Webhook(id, user_id, webhook_url) ==
    [id |-> id, user_id |-> user_id, webhook_url |-> webhook_url, is_active |-> TRUE]

\* The deployments the checker is started in: the stored settings (None is
\* a missing row), the default webhook and the registered user webhooks.
\* User 2 is subscribed but has no webhook.
Deployments ==
    { [interval |-> None, threshold |-> None, default |-> None,
       webhooks |-> << Webhook(1, 1, UrlDiscord) >>],
      [interval |-> Some("3600"), threshold |-> None, default |-> Some(UrlDiscord),
       webhooks |-> << Webhook(1, 1, UrlDiscord) >>],
      [interval |-> Some("3540"), threshold |-> Some("60"), default |-> Some(UrlDiscord),
       webhooks |-> << >>],
      [interval |-> Some("3600"), threshold |-> Some("61"), default |-> None,
       webhooks |-> << Webhook(1, 1, UrlDiscord) >>],
      [interval |-> Some("30"), threshold |-> Some("1"), default |-> Some(UrlDiscord),
       webhooks |-> << Webhook(1, 1, UrlDiscord), Webhook(2, 1, UrlSlack) >>] }

ConfigOf(d) ==
    [ k \in ConfigKeys |->
        CASE k = "check_interval_seconds" -> d.interval
          [] k = "notification_threshold_minutes" -> d.threshold
          [] k = "discord_webhook_url" -> d.default ]

\* The state in which a scheduler bound to the subsidiary starts in
\* deployment d, beside the given other processes.
StartIn(d, subsidiary, others) ==
    /\ now = 0
    /\ config = ConfigOf(d)
    /\ user_webhooks = d.webhooks
    /\ inventory_status = << >>
    /\ out_of_stock_tracking = << >>
    /\ datacenter_locations = {}
    /\ notification_history = << >>
    /\ user_notification_history = << >>
    /\ http_log = << >>
    /\ pc = "cycle"
    /\ plans = << >>
    /\ availabilities = << >>
    /\ avail = NoEntry
    /\ was_available = None
    /\ out_of_stock_minutes = None
    /\ notification_threshold = 0
    /\ subscribed_users = << >>
    /\ check_interval = 0
    /\ cycles = 0
    /\ api_calls = 0
    /\ entries_seen = 0
    /\ gate_log = << >>
    /\ fanouts = << >>
    /\ instance = subsidiary
    /\ wake = 0
    /\ fanout_id = 0
    /\ parked = others
    /\ faults = 0

Init == \E d \in Deployments : StartIn(d, "US", << >>)

\* the plan check_plan is running for
plan_code == plans[1].plan_code

\* the number of cycles a scheduler is followed for: one fewer when it runs
\* beside other processes
CyclesFollowed == IF parked = << >> THEN MaxCycles ELSE MaxCycles - 1

\* -------------------------------------------------------------- scheduler
\* run_check_cycle, line 162: read the enabled plans of the subsidiary.
RunCheckCycle ==
    /\ pc = "cycle"
    /\ cycles < CyclesFollowed
    /\ plans' = get_monitored_plans(Subsidiary)
    /\ pc' = "plan"
    /\ UNCHANGED <<procVars, now, http_log, storeVars, histVars, availabilities, avail, was_available,
                   out_of_stock_minutes, notification_threshold, subscribed_users,
                   check_interval>>

\* A check_plan that takes a failed or empty fetch for "out of stock
\* everywhere" and records an unavailable reading for the plan.
CheckPlan_failure_is_out_of_stock ==
    /\ pc = "plan"
    /\ plans # << >>
    /\ \E data \in fetch_availability(plan_code, Subsidiary) :
         IF data = None \/ parse_availability(data) = << >>
         THEN /\ pc' = "pause"
              /\ inventory_status' =
                   save_inventory_status(plan_code, Subsidiary, "unknown", "", FALSE)
              /\ UNCHANGED availabilities
         ELSE /\ availabilities' = parse_availability(data)
              /\ pc' = "entry"
              /\ UNCHANGED inventory_status
    /\ UNCHANGED <<procVars, now, http_log, config, out_of_stock_tracking,
                   datacenter_locations, notification_history, user_notification_history,
                   user_webhooks, histVars, plans, avail, was_available,
                   out_of_stock_minutes, notification_threshold, subscribed_users,
                   check_interval>>

\* check_plan, lines 75-84: fetch and parse; nothing is written when the
\* fetch fails or the parse is empty.
CheckPlan ==
    /\ pc = "plan"
    /\ plans # << >>
    /\ \E data \in fetch_availability(plan_code, Subsidiary) :
         IF data = None \/ parse_availability(data) = << >>
         THEN /\ pc' = "pause"
              /\ UNCHANGED availabilities
         ELSE /\ availabilities' = parse_availability(data)
              /\ pc' = "entry"
    /\ UNCHANGED <<procVars, now, http_log, storeVars, histVars, plans, avail, was_available,
                   out_of_stock_minutes, notification_threshold, subscribed_users,
                   check_interval>>

\* check_plan, lines 86-104: take the next entry and upsert its location.
NextAvailability ==
    /\ pc = "entry"
    /\ IF availabilities = << >>
       THEN /\ pc' = "pause"
            /\ UNCHANGED <<availabilities, avail, entries_seen, datacenter_locations>>
       ELSE /\ avail' = Head(availabilities)
            /\ availabilities' = Tail(availabilities)
            /\ entries_seen' = entries_seen + 1
            /\ datacenter_locations' =
                 IF Head(availabilities).datacenter_code # ""
                 THEN datacenter_locations \cup {<<Head(availabilities).datacenter_code, Subsidiary>>}
                 ELSE datacenter_locations
            /\ pc' = "last"
    /\ UNCHANGED <<procVars, now, http_log, config, inventory_status, out_of_stock_tracking,
                   notification_history, user_notification_history, user_webhooks,
                   plans, was_available, out_of_stock_minutes, notification_threshold,
                   subscribed_users, check_interval, cycles, api_calls, gate_log, fanouts>>

\* check_plan, lines 108-109.
GetLastStatus ==
    /\ pc = "last"
    /\ was_available' =
         LET last_status == get_last_status(plan_code, avail.datacenter, Subsidiary) IN
         IF last_status # None THEN Some(last_status[1].is_available) ELSE None
    /\ pc' = "save"
    /\ UNCHANGED <<procVars, now, http_log, storeVars, histVars, plans, availabilities, avail,
                   out_of_stock_minutes, notification_threshold, subscribed_users,
                   check_interval>>

\* A check_plan that tests "not was_available" where line 124 tests
\* "was_available is False": no prior observation counts as out of stock.
SaveInventoryStatus_not_was_available ==
    /\ pc = "save"
    /\ inventory_status' = save_inventory_status(plan_code, Subsidiary, avail.datacenter,
                                                 avail.datacenter_code, avail.is_available)
    /\ pc' = IF avail.is_available
             THEN (IF was_available # Some(TRUE) THEN "mark" ELSE "entry")
             ELSE "track"
    /\ UNCHANGED <<procVars, now, http_log, config, out_of_stock_tracking, datacenter_locations,
                   notification_history, user_notification_history, user_webhooks,
                   localVars, histVars>>

\* A check_plan that calls track_out_of_stock on an available -> unavailable
\* transition only, and not for an unavailable reading without one.
SaveInventoryStatus_track_on_transition ==
    /\ pc = "save"
    /\ inventory_status' = save_inventory_status(plan_code, Subsidiary, avail.datacenter,
                                                 avail.datacenter_code, avail.is_available)
    /\ pc' = IF avail.is_available
             THEN (IF was_available = Some(FALSE) THEN "mark" ELSE "entry")
             ELSE (IF was_available = Some(TRUE) THEN "track" ELSE "entry")
    /\ UNCHANGED <<procVars, now, http_log, config, out_of_stock_tracking, datacenter_locations,
                   notification_history, user_notification_history, user_webhooks,
                   localVars, histVars>>

\* check_plan, lines 112-124 and 156: record the observation and branch.
SaveInventoryStatus ==
    /\ pc = "save"
    /\ inventory_status' = save_inventory_status(plan_code, Subsidiary, avail.datacenter,
                                                 avail.datacenter_code, avail.is_available)
    /\ pc' = IF avail.is_available
             THEN (IF was_available = Some(FALSE) THEN "mark" ELSE "entry")
             ELSE "track"
    /\ UNCHANGED <<procVars, now, http_log, config, out_of_stock_tracking, datacenter_locations,
                   notification_history, user_notification_history, user_webhooks,
                   localVars, histVars>>

\* check_plan, line 158.
TrackOutOfStock ==
    /\ pc = "track"
    /\ out_of_stock_tracking' = track_out_of_stock(plan_code, avail.datacenter, Subsidiary)
    /\ pc' = "entry"
    /\ UNCHANGED <<procVars, now, http_log, config, inventory_status, datacenter_locations,
                   notification_history, user_notification_history, user_webhooks,
                   localVars, histVars>>

\* check_plan, line 126.
MarkReturnedToStock ==
    /\ pc = "mark"
    /\ LET r == mark_returned_to_stock(plan_code, avail.datacenter, Subsidiary) IN
         /\ out_of_stock_minutes' = r.minutes
         /\ out_of_stock_tracking' = r.tracking
    /\ pc' = "threshold"
    /\ UNCHANGED <<procVars, now, http_log, config, inventory_status, datacenter_locations,
                   notification_history, user_notification_history, user_webhooks,
                   plans, availabilities, avail, was_available, notification_threshold,
                   subscribed_users, check_interval, histVars>>

\* check_plan, lines 129-135: read the threshold, take the gate, and enter
\* send_notifications_to_all when it is passed.
GetNotificationThreshold ==
    /\ pc = "threshold"
    /\ notification_threshold' = get_notification_threshold
    /\ gate_log' = Append(gate_log,
                          [ plan_code |-> plan_code, subsidiary |-> Subsidiary,
                            datacenter |-> avail.datacenter, at |-> now,
                            minutes |-> out_of_stock_minutes,
                            threshold |-> get_notification_threshold ])
    /\ IF ShouldNotify(out_of_stock_minutes, get_notification_threshold)
       THEN /\ fanouts' = Append(fanouts,
                                 [ plan_code |-> plan_code, subsidiary |-> Subsidiary,
                                   datacenter |-> avail.datacenter, at |-> now,
                                   minutes |-> out_of_stock_minutes[1],
                                   default_sent |-> FALSE, recipients |-> None,
                                   done |-> FALSE ])
            /\ fanout_id' = Len(fanouts) + 1
            /\ pc' = "default"
       ELSE /\ UNCHANGED <<fanouts, fanout_id>>
            /\ pc' = "entry"
    /\ UNCHANGED <<instance, wake, parked, faults, now, http_log, storeVars, plans, availabilities, avail, was_available,
                   out_of_stock_minutes, subscribed_users, check_interval, cycles,
                   api_calls, entries_seen>>

\* ------------------------------------------------ send_notifications_to_all
\* The log of POSTs after session.post(url, ...) of the fanout in progress
\* (fanouts[fanout_id]) ended in the given outcome.
Post(url, user_id, webhook_id, outcome) ==
    Append(http_log,
           [ url |-> url, user_id |-> user_id, webhook_id |-> webhook_id,
             fanout |-> fanout_id, plan_code |-> plan_code, subsidiary |-> Subsidiary,
             datacenter |-> avail.datacenter, at |-> now, outcome |-> outcome ])

save_notification(success, error) ==
    Append(notification_history,
           [ plan_code |-> plan_code, subsidiary |-> Subsidiary,
             datacenter |-> avail.datacenter, minutes |-> out_of_stock_minutes[1],
             success |-> success, error_message |-> error, sent_at |-> now,
             fanout |-> fanout_id ])

save_user_notification(success, error, user_id, webhook_id, is_default_webhook) ==
    Append(user_notification_history,
           [ user_id |-> user_id, webhook_id |-> webhook_id, plan_code |-> plan_code,
             datacenter |-> avail.datacenter, minutes |-> out_of_stock_minutes[1],
             success |-> success, error_message |-> error,
             is_default_webhook |-> is_default_webhook, sent_at |-> now,
             fanout |-> fanout_id ])

\* A default-webhook step that records the attempt in notification_history
\* only, leaving user_notification_history without the default's row.
SendDefaultWebhook_legacy_only ==
    /\ pc = "default"
    /\ LET default_webhook_url == get_config("discord_webhook_url") IN
       IF default_webhook_url # None
       THEN \E outcome \in HttpOutcomes :
              LET r == send_discord_notification(outcome) IN
              /\ http_log' = Post(default_webhook_url[1], None, None, outcome)
              /\ notification_history' = save_notification(r.success, r.error)
              /\ fanouts' = [fanouts EXCEPT ![fanout_id].default_sent = TRUE]
       ELSE UNCHANGED <<http_log, notification_history, fanouts>>
    /\ pc' = "subscribers"
    /\ UNCHANGED <<procVars, now, config, inventory_status, out_of_stock_tracking, datacenter_locations,
                   user_notification_history, user_webhooks, localVars, cycles, api_calls,
                   entries_seen, gate_log>>

\* A default-webhook step that posts and leaves both history records for
\* later, after the per-user loop.
SendDefaultWebhook_unrecorded ==
    /\ pc = "default"
    /\ LET default_webhook_url == get_config("discord_webhook_url") IN
       IF default_webhook_url # None
       THEN \E outcome \in HttpOutcomes :
              /\ http_log' = Post(default_webhook_url[1], None, None, outcome)
              /\ fanouts' = [fanouts EXCEPT ![fanout_id].default_sent = TRUE]
       ELSE UNCHANGED <<http_log, fanouts>>
    /\ pc' = "subscribers"
    /\ UNCHANGED <<procVars, now, config, inventory_status, out_of_stock_tracking, datacenter_locations,
                   notification_history, user_notification_history,
                   user_webhooks, localVars, cycles, api_calls, entries_seen, gate_log>>

\* send_notifications_to_all, lines 108-138: the default webhook.
SendDefaultWebhook ==
    /\ pc = "default"
    /\ LET default_webhook_url == get_config("discord_webhook_url") IN
       IF default_webhook_url # None
       THEN \E outcome \in HttpOutcomes :
              LET r == send_discord_notification(outcome) IN
              /\ http_log' = Post(default_webhook_url[1], None, None, outcome)
              /\ notification_history' = save_notification(r.success, r.error)
              /\ user_notification_history' =
                   save_user_notification(r.success, r.error, None, None, TRUE)
              /\ fanouts' = [fanouts EXCEPT ![fanout_id].default_sent = TRUE]
       ELSE UNCHANGED <<http_log, notification_history, user_notification_history, fanouts>>
    /\ pc' = "subscribers"
    /\ UNCHANGED <<procVars, now, config, inventory_status, out_of_stock_tracking, datacenter_locations,
                   user_webhooks, localVars, cycles, api_calls, entries_seen, gate_log>>

\* A subscriber query without DISTINCT: one row per (user, subscription,
\* active webhook) of the join.
GetUsersSubscribedToPlan_without_distinct ==
    /\ pc = "subscribers"
    /\ LET joined == { t \in users \X user_plan_subscriptions \X DOMAIN user_webhooks :
                         /\ t[2].user_id = t[1].id
                         /\ user_webhooks[t[3]].user_id = t[1].id
                         /\ user_webhooks[t[3]].is_active
                         /\ t[2].plan_code = plan_code
                         /\ (t[2].subsidiary = None \/ t[2].subsidiary = Some(Subsidiary))
                         /\ t[2].notify_on_available
                         /\ t[1].is_active }
       IN \E q \in Orderings(joined) :
            /\ subscribed_users' =
                 [ i \in DOMAIN q |->
                     [ user_id |-> q[i][1].id, webhook_id |-> user_webhooks[q[i][3]].id,
                       webhook_url |-> user_webhooks[q[i][3]].webhook_url ] ]
            /\ fanouts' = [fanouts EXCEPT
                             ![fanout_id].recipients =
                                 Some(get_users_subscribed_to_plan(plan_code, Subsidiary)),
                             ![fanout_id].done = (q = << >>)]
            /\ pc' = IF q = << >> THEN "entry" ELSE "user"
    /\ UNCHANGED <<procVars, now, http_log, storeVars, plans, availabilities, avail, was_available,
                   out_of_stock_minutes, notification_threshold, check_interval, cycles,
                   api_calls, entries_seen, gate_log>>

\* send_notifications_to_all, line 141: the subscriber query.
GetUsersSubscribedToPlan ==
    /\ pc = "subscribers"
    /\ \E q \in Orderings(get_users_subscribed_to_plan(plan_code, Subsidiary)) :
         /\ subscribed_users' = q
         /\ fanouts' = [fanouts EXCEPT
                          ![fanout_id].recipients =
                              Some(get_users_subscribed_to_plan(plan_code, Subsidiary)),
                          ![fanout_id].done = (q = << >>)]
         /\ pc' = IF q = << >> THEN "entry" ELSE "user"
    /\ UNCHANGED <<procVars, now, http_log, storeVars, plans, availabilities, avail, was_available,
                   out_of_stock_minutes, notification_threshold, check_interval, cycles,
                   api_calls, entries_seen, gate_log>>

\* A loop iteration that lets a failed delivery end the fanout: the rows
\* after the failing one are dropped.
SendUserWebhook_abort ==
    /\ pc = "user"
    /\ subscribed_users # << >>
    /\ LET user == Head(subscribed_users) IN
       \E outcome \in HttpOutcomes :
         LET r == send_discord_notification(outcome) IN
         /\ http_log' = Post(user.webhook_url, Some(user.user_id), Some(user.webhook_id), outcome)
         /\ user_notification_history' =
              save_user_notification(r.success, r.error, Some(user.user_id),
                                     Some(user.webhook_id), FALSE)
         /\ subscribed_users' = IF r.success THEN Tail(subscribed_users) ELSE << >>
         /\ fanouts' = [fanouts EXCEPT ![fanout_id].done = (subscribed_users' = << >>)]
         /\ pc' = IF subscribed_users' = << >> THEN "entry" ELSE "user"
    /\ UNCHANGED <<procVars, now, config, inventory_status, out_of_stock_tracking, datacenter_locations,
                   notification_history, user_webhooks, plans, availabilities, avail,
                   was_available, out_of_stock_minutes, notification_threshold,
                   check_interval, cycles, api_calls, entries_seen, gate_log>>

\* A loop iteration that keeps a row whose delivery failed at the head of
\* the list, so that the next iteration sends to it again.
SendUserWebhook_retry ==
    /\ pc = "user"
    /\ subscribed_users # << >>
    /\ LET user == Head(subscribed_users) IN
       \E outcome \in HttpOutcomes :
         LET r == send_discord_notification(outcome) IN
         /\ http_log' = Post(user.webhook_url, Some(user.user_id), Some(user.webhook_id), outcome)
         /\ user_notification_history' =
              save_user_notification(r.success, r.error, Some(user.user_id),
                                     Some(user.webhook_id), FALSE)
         /\ subscribed_users' = IF r.success THEN Tail(subscribed_users) ELSE subscribed_users
         /\ fanouts' = [fanouts EXCEPT ![fanout_id].done = (subscribed_users' = << >>)]
         /\ pc' = IF subscribed_users' = << >> THEN "entry" ELSE "user"
    /\ UNCHANGED <<procVars, now, config, inventory_status, out_of_stock_tracking, datacenter_locations,
                   notification_history, user_webhooks, plans, availabilities, avail,
                   was_available, out_of_stock_minutes, notification_threshold,
                   check_interval, cycles, api_calls, entries_seen, gate_log>>

\* send_notifications_to_all, lines 143-179: one iteration of the loop.
SendUserWebhook ==
    /\ pc = "user"
    /\ subscribed_users # << >>
    /\ LET user == Head(subscribed_users) IN
       \E outcome \in HttpOutcomes :
         LET r == send_discord_notification(outcome) IN
         /\ http_log' = Post(user.webhook_url, Some(user.user_id), Some(user.webhook_id), outcome)
         /\ user_notification_history' =
              save_user_notification(r.success, r.error, Some(user.user_id),
                                     Some(user.webhook_id), FALSE)
    /\ subscribed_users' = Tail(subscribed_users)
    /\ fanouts' = [fanouts EXCEPT ![fanout_id].done = (Tail(subscribed_users) = << >>)]
    /\ pc' = IF Tail(subscribed_users) = << >> THEN "entry" ELSE "user"
    /\ UNCHANGED <<procVars, now, config, inventory_status, out_of_stock_tracking, datacenter_locations,
                   notification_history, user_webhooks, plans, availabilities, avail,
                   was_available, out_of_stock_minutes, notification_threshold,
                   check_interval, cycles, api_calls, entries_seen, gate_log>>

\* asyncio.sleep(delay).  A scheduler that is the only process sleeps the
\* clock forward; beside other processes it is suspended until the clock
\* has reached the end of its sleep.
asyncio_sleep(delay) ==
    IF parked = << >>
    THEN now' = now + delay /\ wake' = wake
    ELSE now' = now /\ wake' = now + delay

\* run_check_cycle, line 172: the pause after each plan.
PlanPause ==
    /\ pc = "pause"
    /\ asyncio_sleep(PlanPauseSeconds)
    /\ plans' = Tail(plans)
    /\ pc' = "plan"
    /\ UNCHANGED <<instance, fanout_id, parked, faults, http_log, storeVars, histVars, availabilities, avail, was_available,
                   out_of_stock_minutes, notification_threshold, subscribed_users,
                   check_interval>>

\* A scheduler that resolves the interval once, in its first cycle, and
\* sleeps that value from then on.
GetCheckInterval_once ==
    /\ pc = "plan"
    /\ plans = << >>
    /\ check_interval' = IF cycles = 0 THEN get_check_interval ELSE check_interval
    /\ pc' = "sleep"
    /\ UNCHANGED <<procVars, now, http_log, storeVars, histVars, plans, availabilities, avail,
                   was_available, out_of_stock_minutes, notification_threshold,
                   subscribed_users>>

\* run_single_subsidiary_mode, line 230.
GetCheckInterval ==
    /\ pc = "plan"
    /\ plans = << >>
    /\ check_interval' = get_check_interval
    /\ pc' = "sleep"
    /\ UNCHANGED <<procVars, now, http_log, storeVars, histVars, plans, availabilities, avail,
                   was_available, out_of_stock_minutes, notification_threshold,
                   subscribed_users>>

\* run_single_subsidiary_mode, line 232.
Sleep ==
    /\ pc = "sleep"
    /\ asyncio_sleep(check_interval)
    /\ cycles' = cycles + 1
    /\ pc' = "cycle"
    /\ UNCHANGED <<instance, fanout_id, parked, faults, http_log, storeVars, localVars, api_calls, entries_seen, gate_log, fanouts>>

\* ------------------------------------------------- multi-subsidiary mode
\* The values of the config key monitored_subsidiaries and the lists
\* get_monitored_subsidiaries makes of them.
SubsidiaryLists ==
    { <<"", <<"US">>>>, <<"FR", <<"FR">>>>, <<"FR,DE", <<"FR", "DE">>>>,
      <<"fr, de", <<"FR", "DE">>>> }

get_monitored_subsidiaries(config_val) ==
    IF config_val = None \/ config_val[1] = ""
    THEN <<"US">>
    ELSE (CHOOSE p \in SubsidiaryLists : p[1] = config_val[1])[2]

\* run_multi_subsidiary_mode, line 246: the list is read once, before the
\* loop, here from the value "FR,DE".
subsidiaries == get_monitored_subsidiaries(Some("FR,DE"))

\* the position of the for loop of line 267
SubsidiaryIndex == CHOOSE i \in DOMAIN subsidiaries : subsidiaries[i] = instance

\* run_multi_subsidiary_mode, lines 264-269: the top of the while loop; an
\* OVHChecker for the first subsidiary starts its run_check_cycle.
RunCheckCycleFirst ==
    /\ pc = "cycle"
    /\ cycles < CyclesFollowed
    /\ instance' = subsidiaries[1]
    /\ plans' = get_monitored_plans(subsidiaries[1])
    /\ pc' = "plan"
    /\ UNCHANGED <<wake, fanout_id, parked, faults, now, http_log, storeVars, histVars,
                   availabilities, avail, was_available, out_of_stock_minutes,
                   notification_threshold, subscribed_users, check_interval>>

\* A for loop that keeps the OVHChecker of the previous subsidiary and has it
\* check the plans of the next one.
RunCheckCycleNext_stale_checker ==
    /\ pc = "plan"
    /\ plans = << >>
    /\ SubsidiaryIndex < Len(subsidiaries)
    /\ instance' = instance
    /\ plans' = get_monitored_plans(subsidiaries[SubsidiaryIndex + 1])
    /\ pc' = "plan"
    /\ UNCHANGED <<wake, fanout_id, parked, faults, now, http_log, storeVars, histVars,
                   availabilities, avail, was_available, out_of_stock_minutes,
                   notification_threshold, subscribed_users, check_interval>>

\* run_multi_subsidiary_mode, lines 267-269: the plans of one subsidiary are
\* done; an OVHChecker for the next one starts its run_check_cycle.
RunCheckCycleNext ==
    /\ pc = "plan"
    /\ plans = << >>
    /\ SubsidiaryIndex < Len(subsidiaries)
    /\ instance' = subsidiaries[SubsidiaryIndex + 1]
    /\ plans' = get_monitored_plans(subsidiaries[SubsidiaryIndex + 1])
    /\ pc' = "plan"
    /\ UNCHANGED <<wake, fanout_id, parked, faults, now, http_log, storeVars, histVars,
                   availabilities, avail, was_available, out_of_stock_minutes,
                   notification_threshold, subscribed_users, check_interval>>

\* run_multi_subsidiary_mode, line 280: the interval is read once every
\* subsidiary has been checked.
GetCheckIntervalAfterAll ==
    /\ SubsidiaryIndex = Len(subsidiaries)
    /\ GetCheckInterval

\* ----------------------------------------------------------------- faults
\* check_plan is about to make a persistence call
AtPersistenceCall ==
    \/ pc = "entry" /\ availabilities # << >> /\ Head(availabilities).datacenter_code # ""
    \/ pc \in {"last", "save", "track", "mark", "threshold", "default", "subscribers"}

\* A loop without the try of line 167: the exception ends the for loop, and
\* the plans after the failing one are not checked in this cycle.
PersistenceError_ends_cycle ==
    /\ faults < MaxFaults
    /\ AtPersistenceCall
    /\ faults' = faults + 1
    /\ availabilities' = << >>
    /\ subscribed_users' = << >>
    /\ plans' = << >>
    /\ pc' = "plan"
    /\ UNCHANGED <<now, http_log, storeVars, histVars, instance, wake, fanout_id, parked,
                   avail, was_available, out_of_stock_minutes,
                   notification_threshold, check_interval>>

\* run_check_cycle, lines 166-170: a persistence call of check_plan (or of
\* the fanout it awaits) raises; the exception leaves check_plan, is caught
\* and logged at line 169, and the loop goes on to the pause of line 172.
\* The call that raised has written nothing.
PersistenceError ==
    /\ faults < MaxFaults
    /\ AtPersistenceCall
    /\ faults' = faults + 1
    /\ availabilities' = << >>
    /\ subscribed_users' = << >>
    /\ pc' = "pause"
    /\ UNCHANGED <<now, http_log, storeVars, histVars, instance, wake, fanout_id, parked,
                   plans, avail, was_available, out_of_stock_minutes,
                   notification_threshold, check_interval>>

\* ------------------------------------------------------ several processes
\* The position of the running scheduler process: its subsidiary, its place
\* in the code, its local variables and the end of its sleep.
Running ==
    [ instance |-> instance, pc |-> pc, plans |-> plans,
      availabilities |-> availabilities, avail |-> avail,
      was_available |-> was_available, out_of_stock_minutes |-> out_of_stock_minutes,
      notification_threshold |-> notification_threshold,
      subscribed_users |-> subscribed_users, check_interval |-> check_interval,
      cycles |-> cycles, wake |-> wake, fanout_id |-> fanout_id ]

\* The position of a scheduler process that has just been started for the
\* subsidiary.
Started(subsidiary) ==
    [ instance |-> subsidiary, pc |-> "cycle", plans |-> << >>,
      availabilities |-> << >>, avail |-> NoEntry,
      was_available |-> None, out_of_stock_minutes |-> None,
      notification_threshold |-> 0,
      subscribed_users |-> << >>, check_interval |-> 0,
      cycles |-> 0, wake |-> 0, fanout_id |-> 0 ]

\* Another scheduler process gets to run: none of the processes shares
\* memory with another, and each is suspended at an await between two of its
\* persistence or HTTP calls.  A process that is asleep is not resumed.
Switch ==
    /\ \E i \in DOMAIN parked :
         /\ parked[i].wake <= now
         /\ parked' = [parked EXCEPT ![i] = Running]
         /\ instance' = parked[i].instance
         /\ pc' = parked[i].pc
         /\ plans' = parked[i].plans
         /\ availabilities' = parked[i].availabilities
         /\ avail' = parked[i].avail
         /\ was_available' = parked[i].was_available
         /\ out_of_stock_minutes' = parked[i].out_of_stock_minutes
         /\ notification_threshold' = parked[i].notification_threshold
         /\ subscribed_users' = parked[i].subscribed_users
         /\ check_interval' = parked[i].check_interval
         /\ cycles' = parked[i].cycles
         /\ wake' = parked[i].wake
         /\ fanout_id' = parked[i].fanout_id
    /\ UNCHANGED <<now, http_log, storeVars, api_calls, entries_seen, gate_log, fanouts,
                   faults>>

\* Every process is asleep: time passes until the first sleep ends.
Advance ==
    /\ wake > now
    /\ \A i \in DOMAIN parked : parked[i].wake > now
    /\ now' = LET ends == {wake} \cup { parked[i].wake : i \in DOMAIN parked }
              IN CHOOSE t \in ends : \A u \in ends : t <= u
    /\ UNCHANGED <<http_log, pc, storeVars, localVars, histVars, procVars>>

\* --------------------------------------- statements of two check passes
\* The two persistence calls of check_plan that issue a SELECT and then a
\* write, statement by statement, as they run when another process works on
\* the same tables between the two (READ COMMITTED: each statement sees what
\* has been committed when it starts).

\* track_out_of_stock, lines 411-420: the SELECT of the open row of the key.
TrackSelect ==
    /\ pc = "track"
    /\ pc' = IF OpenIds(plan_code, avail.datacenter, Subsidiary) = {} THEN "insert" ELSE "entry"
    /\ UNCHANGED <<procVars, now, http_log, storeVars, localVars, histVars>>

\* the rows of the key that started at the current time
StartedNow(plan, datacenter, subsidiary) ==
    { i \in DOMAIN out_of_stock_tracking :
        /\ SameKey(out_of_stock_tracking[i], plan, datacenter, subsidiary)
        /\ out_of_stock_tracking[i].out_of_stock_since = now }

\* track_out_of_stock, lines 422-430: the INSERT and the commit.  Two rows
\* of a key written within the same second (here: the same value of now)
\* carry the same out_of_stock_since only when their transactions started
\* in the same microsecond; then the unique constraint of models.py 431
\* rejects the second one, and the IntegrityError ends check_plan.
TrackInsert ==
    /\ pc = "insert"
    /\ \E same_microsecond \in
           (IF StartedNow(plan_code, avail.datacenter, Subsidiary) = {}
            THEN {FALSE} ELSE BOOLEAN) :
         IF same_microsecond
         THEN /\ availabilities' = << >>
              /\ pc' = "pause"
              /\ UNCHANGED out_of_stock_tracking
         ELSE /\ out_of_stock_tracking' =
                   Append(out_of_stock_tracking,
                          [ id |-> Len(out_of_stock_tracking) + 1,
                            plan_code |-> plan_code, subsidiary |-> Subsidiary,
                            datacenter |-> avail.datacenter, out_of_stock_since |-> now,
                            notified |-> FALSE, returned_to_stock_at |-> None ])
              /\ pc' = "entry"
              /\ UNCHANGED availabilities
    /\ UNCHANGED <<procVars, now, http_log, config, inventory_status, datacenter_locations,
                   notification_history, user_notification_history, user_webhooks,
                   plans, avail, was_available, out_of_stock_minutes,
                   notification_threshold, subscribed_users, check_interval, histVars>>

\* mark_returned_to_stock, lines 453-467: the SELECT of the duration.
MarkSelect ==
    /\ pc = "mark"
    /\ out_of_stock_minutes' =
         mark_returned_to_stock(plan_code, avail.datacenter, Subsidiary).minutes
    /\ pc' = "update"
    /\ UNCHANGED <<procVars, now, http_log, storeVars, plans, availabilities, avail,
                   was_available, notification_threshold, subscribed_users,
                   check_interval, histVars>>

\* mark_returned_to_stock, lines 469-482: the UPDATE of the rows of the key
\* that are open when it runs, and the commit.
MarkUpdate ==
    /\ pc = "update"
    /\ out_of_stock_tracking' =
         mark_returned_to_stock(plan_code, avail.datacenter, Subsidiary).tracking
    /\ pc' = "threshold"
    /\ UNCHANGED <<procVars, now, http_log, config, inventory_status, datacenter_locations,
                   notification_history, user_notification_history, user_webhooks,
                   localVars, histVars>>

\* ------------------------------------------------- catalog refresh, shutdown
\* What the catalogue GET can yield: None (fetch_catalog caught an error or
\* a non-200 status), or the decoded document, of which the model keeps the
\* "name" key of each product (None where the key is missing).
Catalogs ==
    { None,
      Some([products |-> << [name |-> Some("vps-1")] >>]),
      Some([products |-> << [name |-> None] >>]) }

\* discover_and_sync_plans: "error" for the dict returned when the fetch
\* failed, "summary" for a completed sync, "KeyError" when extract_plan_specs
\* indexes p['name'] on a product without that key.
discover_and_sync_plans(catalog) ==
    IF catalog = None THEN "error"
    ELSE IF \E i \in DOMAIN catalog[1].products : catalog[1].products[i].name = None
    THEN "KeyError"
    ELSE "summary"

\* run_single_subsidiary_mode, lines 223-227 (run_multi_subsidiary_mode,
\* 269-275): the catalogue refresh after the check cycle, when it is due.
\* The tables it syncs are not read by the detection; what matters here is
\* whether it returns.  An exception it raises is caught nowhere in the
\* loop and ends it.
CatalogRefresh ==
    /\ pc = "plan"
    /\ plans = << >>
    /\ \E should_sync_catalog \in BOOLEAN, catalog \in Catalogs :
         IF should_sync_catalog /\ discover_and_sync_plans(catalog) = "KeyError"
         THEN pc' = "raised"
         ELSE pc' = pc
    /\ UNCHANGED <<procVars, now, http_log, storeVars, localVars, histVars>>

\* task.cancel() on the scheduler: CancelledError is raised at the await the
\* task is suspended in.  It is no Exception, so the except of
\* run_check_cycle (line 169) lets it pass; lines 233-235 log and re-raise.
Cancel ==
    /\ pc \notin {"cancelled", "raised"}
    /\ pc' = "cancelled"
    /\ UNCHANGED <<procVars, now, http_log, storeVars, localVars, histVars>>

\* The scheduler process is killed, or its task cancelled, at the await it
\* is suspended in: nothing more of the cycle runs.
Crash ==
    /\ faults < MaxFaults
    /\ pc \notin {"cancelled", "raised"}
    /\ faults' = faults + 1
    /\ pc' = "cancelled"
    /\ UNCHANGED <<now, http_log, storeVars, localVars, histVars, instance, wake,
                   fanout_id, parked>>

\* main, lines 286-301: the checker is started again on the same store.
Start ==
    /\ pc \in {"cancelled", "raised"}
    /\ pc' = Started(instance).pc
    /\ plans' = Started(instance).plans
    /\ availabilities' = Started(instance).availabilities
    /\ avail' = Started(instance).avail
    /\ was_available' = Started(instance).was_available
    /\ out_of_stock_minutes' = Started(instance).out_of_stock_minutes
    /\ notification_threshold' = Started(instance).notification_threshold
    /\ subscribed_users' = Started(instance).subscribed_users
    /\ check_interval' = Started(instance).check_interval
    /\ cycles' = Started(instance).cycles
    /\ fanout_id' = Started(instance).fanout_id
    /\ UNCHANGED <<now, http_log, storeVars, api_calls, entries_seen, gate_log, fanouts,
                   instance, wake, parked, faults>>

\* -------------------------------------------------------------------- API
\* PUT /settings/checker of the admin router: both settings, within the
\* ranges of the request model, written as strings.
admin_update_checker_settings ==
    /\ api_calls < MaxApiCalls
    /\ \E settings \in CheckerSettings :
         config' = [config EXCEPT
                      !["check_interval_seconds"] = Some(settings.check_interval_seconds),
                      !["notification_threshold_minutes"] =
                          Some(settings.notification_threshold_minutes)]
    /\ api_calls' = api_calls + 1
    /\ UNCHANGED <<procVars, now, http_log, pc, inventory_status, out_of_stock_tracking,
                   datacenter_locations, notification_history, user_notification_history,
                   user_webhooks, localVars, cycles, entries_seen, gate_log, fanouts>>

\* PUT /api/config/discord-webhook: the URL is stored as given.
update_discord_webhook ==
    /\ api_calls < MaxApiCalls
    /\ \E webhook_url \in Urls :
         config' = set_config("discord_webhook_url", webhook_url)
    /\ api_calls' = api_calls + 1
    /\ UNCHANGED <<procVars, now, http_log, pc, inventory_status, out_of_stock_tracking,
                   datacenter_locations, notification_history, user_notification_history,
                   user_webhooks, localVars, cycles, entries_seen, gate_log, fanouts>>

\* POST /api/me/webhooks by user 2: the body passes the model validator and
\* the type detection, then the row is inserted.
create_my_webhook ==
    /\ api_calls < MaxApiCalls
    /\ \E user_id \in {2}, webhook_url \in Urls :
         /\ UserWebhookCreate_validate_webhook_url(webhook_url)
         /\ detect_webhook_type(webhook_url) # "unknown"
         /\ user_webhooks' = Append(user_webhooks,
                                    Webhook(Len(user_webhooks) + 1, user_id, webhook_url))
    /\ api_calls' = api_calls + 1
    /\ UNCHANGED <<procVars, now, http_log, pc, config, inventory_status, out_of_stock_tracking,
                   datacenter_locations, notification_history, user_notification_history,
                   localVars, cycles, entries_seen, gate_log, fanouts>>

\* ---------------------------------------------------------- specifications
Next ==
    \/ RunCheckCycle
    \/ CheckPlan
    \/ NextAvailability
    \/ GetLastStatus
    \/ SaveInventoryStatus
    \/ TrackOutOfStock
    \/ MarkReturnedToStock
    \/ GetNotificationThreshold
    \/ SendDefaultWebhook
    \/ GetUsersSubscribedToPlan
    \/ SendUserWebhook
    \/ PlanPause
    \/ GetCheckInterval
    \/ Sleep

\* The checker alone, in each of the deployments.
Spec == Init /\ [][Next]_vars

NextApi ==
    \/ Next
    \/ admin_update_checker_settings
    \/ update_discord_webhook
    \/ create_my_webhook

\* The checker with API requests served between its steps.
SpecApi == Init /\ [][NextApi]_vars

\* The deployments a scheduler with two plans to check is followed in.
TargetDeployments == { d \in Deployments : d.threshold = Some("1") }

InitTargets == \E d \in TargetDeployments : StartIn(d, "CA", << >>)

\* The checker of a subsidiary with two enabled plans.
SpecTargets == InitTargets /\ [][Next]_vars

\* The values the two settings are stored with: missing, empty, not a
\* number, below both ranges, above both ranges, within both.
StoredSettings == { None, Some(""), Some("abc"), Some("0"), Some("7200"), Some("60") }

SettingsDeployments ==
    { [interval |-> v, threshold |-> v, default |-> None,
       webhooks |-> << Webhook(1, 1, UrlDiscord) >>] : v \in StoredSettings }

InitSettings == \E d \in SettingsDeployments : StartIn(d, "US", << >>)

\* The checker over each of the stored settings.
SpecSettings == InitSettings /\ [][Next]_vars

NextLoop ==
    \/ Next
    \/ CatalogRefresh
    \/ Cancel

\* The scheduler loop with its catalogue refresh and a shutdown signal.  The
\* event loop resumes a coroutine whose await has completed, and every await
\* of the checker completes (the HTTP calls carry timeouts, the sleeps end).
SpecLoop == Init /\ [][NextLoop]_vars /\ WF_vars(Next)

\* One scheduler per subsidiary (main, lines 299-301, in each container):
\* the running process takes a step when it is not asleep.
NextDistributed ==
    \/ wake <= now /\ Next
    \/ Switch
    \/ Advance

\* The deployment the distributed topology is followed in.
DistributedDeployments ==
    { [interval |-> Some("60"), threshold |-> Some("1"), default |-> None,
       webhooks |-> << Webhook(1, 1, UrlDiscord) >>] }

InitDistributed ==
    \E d \in DistributedDeployments : StartIn(d, "FR", << Started("DE") >>)

\* A scheduler for FR and a scheduler for DE on the same store.
SpecDistributed == InitDistributed /\ [][NextDistributed]_vars

NextConfig ==
    \/ Next
    \/ admin_update_checker_settings

\* The deployment the settings are changed in: nothing stored for either.
ConfigDeployments == { d \in Deployments : d.interval = None /\ d.threshold = None }

InitConfig == \E d \in ConfigDeployments : StartIn(d, "US", << >>)

\* The checker with the administrator changing the settings while it runs.
SpecConfig == InitConfig /\ [][NextConfig]_vars

NextFaults ==
    \/ Next
    \/ PersistenceError

\* The deployment it is followed in: one subscriber endpoint, no default
\* webhook, and a threshold that two cycles out of stock exceed.
FaultDeployments ==
    { [interval |-> Some("3540"), threshold |-> Some("60"), default |-> None,
       webhooks |-> << Webhook(1, 1, UrlDiscord) >>] }

InitFaults == \E d \in FaultDeployments : StartIn(d, "CA", << >>)

\* The same checker over a store whose calls can raise.
SpecFaults == InitFaults /\ [][NextFaults]_vars

\* The scheduler of FR, killed at some await and started again.
NextRestart ==
    \/ Next
    \/ Crash
    \/ Start

RestartDeployments ==
    { [interval |-> Some("60"), threshold |-> Some("1"), default |-> None,
       webhooks |-> << Webhook(1, 1, UrlDiscord) >>] }

InitRestart == \E d \in RestartDeployments : StartIn(d, "FR", << >>)

SpecRestart == InitRestart /\ [][NextRestart]_vars

\* The scheduler of GB, whose upstream answers leave keys out.
KeysMissingDeployments ==
    { [interval |-> Some("60"), threshold |-> Some("1"), default |-> None,
       webhooks |-> << Webhook(1, 1, UrlDiscord) >>] }

InitKeysMissing == \E d \in KeysMissingDeployments : StartIn(d, "GB", << >>)

SpecKeysMissing == InitKeysMissing /\ [][Next]_vars

\* Two scheduler processes bound to the same subsidiary (two replicas of the
\* FR container), their statements interleaved.
NextStatements ==
    \/ RunCheckCycle
    \/ CheckPlan
    \/ NextAvailability
    \/ GetLastStatus
    \/ SaveInventoryStatus
    \/ TrackSelect
    \/ TrackInsert
    \/ MarkSelect
    \/ MarkUpdate
    \/ GetNotificationThreshold
    \/ SendDefaultWebhook
    \/ GetUsersSubscribedToPlan
    \/ SendUserWebhook
    \/ PlanPause
    \/ GetCheckInterval
    \/ Sleep

NextOverlap ==
    \/ wake <= now /\ NextStatements
    \/ Switch
    \/ Advance

OverlapDeployments ==
    { [interval |-> Some("60"), threshold |-> Some("1"), default |-> None,
       webhooks |-> << Webhook(1, 1, UrlDiscord) >>] }

InitOverlap == \E d \in OverlapDeployments : StartIn(d, "FR", << Started("FR") >>)

SpecOverlap == InitOverlap /\ [][NextOverlap]_vars

\* A webhook its owner has switched off.
InactiveWebhook(id, user_id, webhook_url) ==
    [id |-> id, user_id |-> user_id, webhook_url |-> webhook_url, is_active |-> FALSE]

\* The scheduler of FR, with webhooks registered by every user: two active
\* ones and an inactive one of user 1, one each of users 2, 3 and 4.
SubscriberDeployments ==
    { [interval |-> Some("60"), threshold |-> Some("1"), default |-> None,
       webhooks |-> << Webhook(1, 1, UrlDiscord), Webhook(2, 1, UrlSlack),
                       InactiveWebhook(3, 1, UrlDiscord), Webhook(4, 2, UrlDiscord),
                       Webhook(5, 3, UrlDiscord), Webhook(6, 4, UrlSlack) >>] }

InitSubscribers == \E d \in SubscriberDeployments : StartIn(d, "FR", << >>)

SpecSubscribers == InitSubscribers /\ [][Next]_vars

\* One multi-subsidiary scheduler (main, lines 302-304): the check_plan of
\* every subsidiary in turn, then one read of the interval and one sleep.
NextSequential ==
    \/ RunCheckCycleFirst
    \/ CheckPlan
    \/ NextAvailability
    \/ GetLastStatus
    \/ SaveInventoryStatus
    \/ TrackOutOfStock
    \/ MarkReturnedToStock
    \/ GetNotificationThreshold
    \/ SendDefaultWebhook
    \/ GetUsersSubscribedToPlan
    \/ SendUserWebhook
    \/ PlanPause
    \/ RunCheckCycleNext
    \/ GetCheckIntervalAfterAll
    \/ Sleep

\* an interval of 58 seconds and a threshold of one minute
SequentialDeployments ==
    { [interval |-> Some("58"), threshold |-> Some("1"), default |-> None,
       webhooks |-> << Webhook(1, 1, UrlDiscord) >>] }

InitSequential == \E d \in SequentialDeployments : StartIn(d, subsidiaries[1], << >>)

SpecSequential == InitSequential /\ [][NextSequential]_vars

\* ------------------------------------------------------------- properties
KeyOf(r) == <<r.plan_code, r.subsidiary, r.datacenter>>

\* the keys observed so far
KeysSeen == { KeyOf(inventory_status[i]) : i \in DOMAIN inventory_status }

\* the observations and the intervals of a key, oldest first
ObsOf(k) == SelectSeq(inventory_status, LAMBDA r : KeyOf(r) = k)
IntervalsOf(k) == SelectSeq(out_of_stock_tracking, LAMBDA r : KeyOf(r) = k)

\* check_plan is between the observation insert and the interval write
BetweenWrites == pc \in {"track", "mark"}

\* C1: under a single scheduler owning the subsidiary, every reachable store
\* state holds at most one out_of_stock_tracking row per (plan_code,
\* subsidiary, datacenter) whose returned_to_stock_at is null.
C1_AtMostOneOpenInterval ==
    \A i, j \in DOMAIN out_of_stock_tracking :
        ( /\ KeyOf(out_of_stock_tracking[i]) = KeyOf(out_of_stock_tracking[j])
          /\ out_of_stock_tracking[i].returned_to_stock_at = None
          /\ out_of_stock_tracking[j].returned_to_stock_at = None ) => i = j

\* track_out_of_stock has run twice for a key that stayed unavailable, and
\* the key has its one open row.
C1_Witness ==
    /\ pc = "entry"
    /\ ~avail.is_available
    /\ was_available = Some(FALSE)
    /\ \E i \in DOMAIN out_of_stock_tracking :
         /\ KeyOf(out_of_stock_tracking[i]) = <<plan_code, Subsidiary, avail.datacenter>>
         /\ out_of_stock_tracking[i].returned_to_stock_at = None
         /\ out_of_stock_tracking[i].out_of_stock_since < now

\* The closed rows a gating decision refers to: those of its key closed at
\* the time the decision was taken.
ClosedBy(g) ==
    { i \in DOMAIN out_of_stock_tracking :
        /\ KeyOf(out_of_stock_tracking[i]) = KeyOf(g)
        /\ out_of_stock_tracking[i].returned_to_stock_at = Some(g.at) }

Duration(i) ==
    (out_of_stock_tracking[i].returned_to_stock_at[1]
       - out_of_stock_tracking[i].out_of_stock_since) \div SecondsPerMinute

FanoutFor(g) == \E f \in DOMAIN fanouts : KeyOf(fanouts[f]) = KeyOf(g) /\ fanouts[f].at = g.at

RunStarts(obs) ==
    { i \in DOMAIN obs : ~obs[i].is_available /\ (i = 1 \/ obs[i - 1].is_available) }

\* the time of the first available observation after position i, if any
RunEnd(obs, i) ==
    LET later == { j \in DOMAIN obs : j > i /\ obs[j].is_available } IN
    IF later = {} THEN None
    ELSE Some(obs[CHOOSE j \in later : \A k \in later : j <= k].checked_at)

\* C3: for every key, each maximal run of consecutive unavailable
\* observations has exactly one interval, opened at the run's first
\* unavailable observation and closed once, at the first available
\* observation after the run; the duration reported for it is the time
\* elapsed between those two observations, however many cycles the run spans.
C3_OneIntervalPerRun ==
    ~BetweenWrites =>
      \A k \in KeysSeen :
        LET obs == ObsOf(k)
            iv == IntervalsOf(k)
        IN /\ Len(iv) = Cardinality(RunStarts(obs))
           /\ \A i \in RunStarts(obs) : \E n \in DOMAIN iv :
                /\ iv[n].out_of_stock_since = obs[i].checked_at
                /\ iv[n].returned_to_stock_at = RunEnd(obs, i)
           /\ \A g \in DOMAIN gate_log : KeyOf(gate_log[g]) = k =>
                \E n \in DOMAIN iv :
                  /\ iv[n].returned_to_stock_at = Some(gate_log[g].at)
                  /\ gate_log[g].minutes =
                       Some((gate_log[g].at - iv[n].out_of_stock_since) \div SecondsPerMinute)

\* A run of two unavailable observations in different cycles was closed by
\* an available one, and the duration reported spans the whole run.
C3_Witness ==
    \E k \in KeysSeen : \E i \in DOMAIN ObsOf(k) : \E g \in DOMAIN gate_log :
        /\ i + 2 \in DOMAIN ObsOf(k)
        /\ i \in RunStarts(ObsOf(k))
        /\ ~ObsOf(k)[i + 1].is_available
        /\ ObsOf(k)[i + 2].is_available
        /\ KeyOf(gate_log[g]) = k
        /\ gate_log[g].at = ObsOf(k)[i + 2].checked_at
        /\ gate_log[g].minutes =
             Some((ObsOf(k)[i + 2].checked_at - ObsOf(k)[i].checked_at) \div SecondsPerMinute)
        /\ ObsOf(k)[i + 1].checked_at > ObsOf(k)[i].checked_at

\* check_plan has taken an entry and not yet inserted its observation
EntryPending == pc \in {"last", "save"}

\* C4: check_plan appends exactly one inventory_status row for every entry
\* of a parsed batch, whether or not the reading differs from the stored
\* one, and no step updates or deletes a row: after N entries, N rows.
C4_AppendOnlyHistory ==
    [][ /\ Len(inventory_status') >= Len(inventory_status)
        /\ SubSeq(inventory_status', 1, Len(inventory_status)) = inventory_status
        /\ Len(inventory_status') > Len(inventory_status) =>
             /\ Len(inventory_status') = Len(inventory_status) + 1
             /\ KeyOf(inventory_status'[Len(inventory_status')])
                  = <<plan_code, Subsidiary, avail.datacenter>>
             /\ inventory_status'[Len(inventory_status')].is_available = avail.is_available
        /\ ~EntryPending' => Len(inventory_status') = entries_seen' ]_vars

\* Two consecutive observations of a key carry the same reading, and both
\* are stored.
C4_Witness ==
    /\ ~EntryPending
    /\ Len(inventory_status) = entries_seen
    /\ \E k \in KeysSeen : \E i \in DOMAIN ObsOf(k) :
         /\ i + 1 \in DOMAIN ObsOf(k)
         /\ ObsOf(k)[i].is_available = ObsOf(k)[i + 1].is_available

\* check_plan is processing an entry whose reading equals the last one
\* stored for its key
RepeatedReading ==
    /\ pc \in {"save", "track", "mark", "threshold", "default", "subscribers", "user"}
    /\ was_available = Some(avail.is_available)

\* C5: processing a reading identical to the previous one of its key writes
\* one more observation, leaves the out_of_stock_tracking rows as they were
\* after the first processing, and fires no fanout.
C5_RepeatIsNoOp ==
    [][ RepeatedReading =>
          /\ out_of_stock_tracking' = out_of_stock_tracking
          /\ fanouts' = fanouts
          /\ http_log' = http_log
          /\ user_notification_history' = user_notification_history
          /\ notification_history' = notification_history
          /\ pc = "save" => Len(inventory_status') = Len(inventory_status) + 1
          /\ pc' \in {"track", "entry"} ]_vars

\* The same unavailable reading was processed three cycles in a row; the
\* key still has the single interval opened by the first.
C5_Witness ==
    /\ pc = "entry"
    /\ was_available = Some(FALSE)
    /\ ~avail.is_available
    /\ LET k == <<plan_code, Subsidiary, avail.datacenter>> IN
       /\ Len(ObsOf(k)) = 3
       /\ \A i \in DOMAIN ObsOf(k) : ~ObsOf(k)[i].is_available
       /\ Len(IntervalsOf(k)) = 1
       /\ IntervalsOf(k)[1].out_of_stock_since = ObsOf(k)[1].checked_at
       /\ IntervalsOf(k)[1].returned_to_stock_at = None

\* the POSTs and the attempt rows of the f-th fanout
PostsOf(f) == { p \in DOMAIN http_log : http_log[p].fanout = f }
RowsOf(f) == { h \in DOMAIN user_notification_history : user_notification_history[h].fanout = f }

\* a POST that ended in a connection error, a timeout or a non-2xx status
TransportError(p) == http_log[p].outcome \notin {"200", "204"}

\* row h records POST p
Records(h, p) ==
    /\ user_notification_history[h].fanout = http_log[p].fanout
    /\ user_notification_history[h].user_id = http_log[p].user_id
    /\ user_notification_history[h].webhook_id = http_log[p].webhook_id
    /\ user_notification_history[h].is_default_webhook = (http_log[p].user_id = None)
    /\ user_notification_history[h].success = ~TransportError(p)
    /\ TransportError(p) => user_notification_history[h].error_message # None

\* the rows of the subscriber query the fanout in progress has still to serve
Remaining == { subscribed_users[i] : i \in DOMAIN subscribed_users }

\* C6: in send_notifications_to_all a delivery that fails with a transport
\* error is captured as (success = false, error) and raises nothing: the
\* fanout goes on, every recipient after the failing one gets its attempt,
\* and every attempt, failed or not, has its record.
C6_FanoutIndependence ==
    \A f \in DOMAIN fanouts :
        /\ ~fanouts[f].done =>
             /\ f = Len(fanouts)
             /\ pc \in {"default", "subscribers", "user"}
             /\ pc = "user" => subscribed_users # << >>
        /\ \A p \in PostsOf(f) : \E h \in RowsOf(f) : Records(h, p)
        /\ fanouts[f].recipients # None =>
             \A r \in fanouts[f].recipients[1] :
                 (fanouts[f].done \/ r \notin Remaining) =>
                     \E p \in PostsOf(f) :
                         /\ http_log[p].url = r.webhook_url
                         /\ http_log[p].user_id = Some(r.user_id)
                         /\ http_log[p].webhook_id = Some(r.webhook_id)

\* A fanout is complete in which a delivery ended in a client exception and
\* a later recipient was attempted; both have their record, the first with
\* success = false and the error.
C6_Witness ==
    \E f \in DOMAIN fanouts : \E p, q \in PostsOf(f) :
        /\ fanouts[f].done
        /\ p < q
        /\ http_log[p].outcome = "ClientError"
        /\ http_log[p].user_id # None
        /\ http_log[q].user_id # None
        /\ \E h, g \in RowsOf(f) :
             /\ h # g
             /\ Records(h, p)
             /\ Records(g, q)
             /\ ~user_notification_history[h].success

\* the active endpoints of the active users subscribed to the plan in the
\* subsidiary with notifications on
Endpoints(plan, subsidiary) ==
    { w \in DOMAIN user_webhooks :
        /\ user_webhooks[w].is_active
        /\ \E u \in users, s \in user_plan_subscriptions :
             /\ u.is_active
             /\ u.id = user_webhooks[w].user_id
             /\ s.user_id = u.id
             /\ s.plan_code = plan
             /\ s.subsidiary \in {None, Some(subsidiary)}
             /\ s.notify_on_available }

\* the subscribed users that have no endpoint
WithoutEndpoint ==
    { s.user_id : s \in user_plan_subscriptions } \ { user_webhooks[w].user_id : w \in DOMAIN user_webhooks }

C8_NoRetry ==
    /\ \A p, q \in DOMAIN http_log :
         ( /\ http_log[p].fanout = http_log[q].fanout
           /\ http_log[p].user_id = http_log[q].user_id
           /\ http_log[p].webhook_id = http_log[q].webhook_id ) => p = q
    /\ \A p \in DOMAIN http_log :
         /\ http_log[p].fanout \in DOMAIN fanouts
         /\ http_log[p].at = fanouts[http_log[p].fanout].at
         /\ KeyOf(http_log[p]) = KeyOf(fanouts[http_log[p].fanout])
    /\ \A f \in DOMAIN fanouts : Cardinality(ClosedBy(fanouts[f])) = 1
    /\ \A f, g \in DOMAIN fanouts : ClosedBy(fanouts[f]) = ClosedBy(fanouts[g]) => f = g

\* A delivery to a user's endpoint failed; the endpoint's next attempt was
\* made by the fanout of a later event, after another interval was closed.
C8_Witness ==
    \E p, q \in DOMAIN http_log :
        /\ p < q
        /\ TransportError(p)
        /\ http_log[p].webhook_id # None
        /\ http_log[p].webhook_id = http_log[q].webhook_id
        /\ http_log[p].fanout < http_log[q].fanout
        /\ http_log[p].at < http_log[q].at
        /\ fanouts[http_log[q].fanout].done

\* the URL uses https and its host resolves, to public addresses only
SafeEndpoint(url) ==
    /\ url.scheme = "https"
    /\ getaddrinfo(url.host) # {}
    /\ \A ip \in getaddrinfo(url.host) : ~_is_private_ip(ip)

\* C9: an endpoint is accepted at configuration time only if its URL uses
\* https and every address its host resolves to is neither private, loopback,
\* link-local nor reserved, and no webhook request is sent to an endpoint
\* that fails this.
C9_EndpointsValidated ==
    /\ \A w \in DOMAIN user_webhooks : SafeEndpoint(user_webhooks[w].webhook_url)
    /\ get_config("discord_webhook_url") # None =>
         SafeEndpoint(get_config("discord_webhook_url")[1])
    /\ \A p \in DOMAIN http_log : SafeEndpoint(http_log[p].url)

\* C10: in the fanout a delivery whose destination is neither a Discord nor
\* a Slack webhook is rejected before any network call (and recorded as a
\* failed attempt): every URL a webhook request is issued to classifies as
\* Discord or Slack.
C10_UnknownTypeRejected ==
    \A p \in DOMAIN http_log : detect_webhook_type(http_log[p].url) # "unknown"

\* the step in which check_plan returns at line 78 or line 84
FetchSkipped == pc = "plan" /\ plans # << >> /\ pc' = "pause"

Raised == faults' = faults + 1

\* C12: an exception raised while one target is processed (a persistence
\* failure at the observation insert, at an interval write or at any other
\* call of check_plan) ends the processing of that target only:
\* run_check_cycle catches it, pauses, checks every remaining target of the
\* cycle, and the scheduler reads the interval, sleeps and starts the next
\* cycle.
C12_ErrorEndsOneTarget ==
    [][ /\ Raised =>
             /\ pc' = "pause"
             /\ plans' = plans
             /\ UNCHANGED <<storeVars, cycles>>
        /\ pc = "pause" => (pc' = "plan" /\ plans' = Tail(plans))
        /\ (pc = "plan" /\ plans # << >>) => (pc' \in {"pause", "entry"} /\ plans' = plans)
        /\ (pc = "plan" /\ plans = << >>) => pc' = "sleep"
        /\ pc = "sleep" => (pc' = "cycle" /\ cycles' = cycles + 1)
        /\ pc' = "sleep" => plans = << >> ]_vars

\* The interval write for the first plan raised in the first cycle (its
\* observation is stored, its interval is not); the second plan was checked
\* one pause later, and the scheduler is in its second cycle.
C12_Witness ==
    /\ faults = 1
    /\ cycles = 1
    /\ pc = "plan"
    /\ \E i \in DOMAIN inventory_status :
         /\ inventory_status[i].plan_code = "vps-1"
         /\ inventory_status[i].checked_at = 0
         /\ ~inventory_status[i].is_available
    /\ \A i \in DOMAIN out_of_stock_tracking : out_of_stock_tracking[i].plan_code # "vps-1"
    /\ \E i \in DOMAIN inventory_status :
         /\ inventory_status[i].plan_code = "vps-2"
         /\ inventory_status[i].checked_at = PlanPauseSeconds

\* the step in which the upsert_datacenter_location of lines 93-104 raises
UpsertRaised == pc = "entry" /\ Raised

\* C13: a failure of the datacenter-location upsert does not abort the
\* detection: check_plan goes on with the datacenter whose upsert failed
\* (its observation is recorded, its interval opened or closed, the gate
\* taken) and keeps the later datacenters of the batch.
C13_UpsertFailureTolerated ==
    [][ UpsertRaised =>
          /\ pc' = "last"
          /\ avail' = Head(availabilities)
          /\ availabilities' = Tail(availabilities) ]_vars

Unusable(v) == v = None \/ v[1] = "" \/ int(v[1]) = None

\* C15: with the stored interval or threshold absent, empty or unparseable,
\* get_check_interval and get_notification_threshold return the static
\* default of the settings and raise nothing: the cycle goes on to its
\* sleep and the gating decision in progress is taken.
C15_FallbackToDefault ==
    /\ (pc = "sleep" /\ Unusable(get_config("check_interval_seconds"))) =>
         check_interval = settings_check_interval_seconds
    /\ Unusable(get_config("notification_threshold_minutes")) =>
         \A n \in DOMAIN gate_log :
             /\ gate_log[n].threshold = settings_notification_threshold_minutes
             /\ gate_log[n].minutes # None =>
                  (FanoutFor(gate_log[n]) <=>
                     gate_log[n].minutes[1] >= settings_notification_threshold_minutes)

\* The store holds "abc" for both settings: a gating decision was taken
\* against the default threshold, and the scheduler sleeps the default
\* interval at the end of its second cycle.
C15_Witness ==
    /\ get_config("check_interval_seconds") = Some("abc")
    /\ get_config("notification_threshold_minutes") = Some("abc")
    /\ pc = "sleep"
    /\ cycles = 1
    /\ check_interval = settings_check_interval_seconds
    /\ now = 2 * PlanPauseSeconds + settings_check_interval_seconds
    /\ \E n \in DOMAIN gate_log :
         gate_log[n].threshold = settings_notification_threshold_minutes

\* C16: a change of the two settings committed while the scheduler runs
\* takes effect without a restart.  The interval is resolved from the store
\* at the end of every cycle and the sleep that follows lasts that value;
\* the threshold is resolved from the store at every gating decision and the
\* decision is taken against that value; no value of an earlier cycle is
\* used again.
C16_SettingsReadEachCycle ==
    [][ /\ (pc = "plan" /\ pc' = "sleep") => check_interval' = get_check_interval
        /\ (pc = "sleep" /\ pc' = "cycle") => now' = now + check_interval
        /\ (pc = "threshold" /\ pc' # "threshold") =>
             /\ Len(gate_log') = Len(gate_log) + 1
             /\ gate_log'[Len(gate_log')].threshold = get_notification_threshold
             /\ pc' = "default" <=>
                  ShouldNotify(out_of_stock_minutes, get_notification_threshold) ]_vars

\* The settings were changed to 30 s and 1 min during the second cycle,
\* after a gating decision against the default 60 min: the first sleep
\* lasted the default 120 s, the second 30 s, and the next gating decision
\* was taken against 1 min.
C16_Witness ==
    /\ api_calls = 1
    /\ get_config("check_interval_seconds") = Some("30")
    /\ cycles = 2
    /\ now = (PlanPauseSeconds + settings_check_interval_seconds) + (PlanPauseSeconds + 30)
    /\ \E m, n \in DOMAIN gate_log :
         /\ m < n
         /\ gate_log[m].threshold = settings_notification_threshold_minutes
         /\ gate_log[m].at = PlanPauseSeconds + settings_check_interval_seconds
         /\ gate_log[n].threshold = 1
         /\ gate_log[n].at = now

\* C17: the scheduler alternates check cycle and sleep for ever and leaves
\* the loop on cancellation only: no fetch failure, malformed response,
\* delivery failure or catalogue-refresh failure ends it, and every completed
\* cycle is eventually followed by another (as far as the cycles are followed).
C17_LoopEndsOnCancellationOnly ==
    /\ [](pc # "raised")
    /\ \A n \in 0..(MaxCycles - 1) :
         (cycles = n) ~> (cycles = n + 1 \/ pc = "cancelled")

\* the latest observation of key k
LastObs(k) == ObsOf(k)[Len(ObsOf(k))]

\* key k has an open interval
HasOpenInterval(k) ==
    \E i \in DOMAIN out_of_stock_tracking :
        /\ KeyOf(out_of_stock_tracking[i]) = k
        /\ out_of_stock_tracking[i].returned_to_stock_at = None

\* C18: a cancellation arriving while a target is processed does not
\* interrupt it: when the scheduler has stopped, no key is left with its new
\* observation stored and its interval update missing, that is, every key
\* has an open interval exactly when its latest observation is unavailable.
C18_CancellationCompletesTarget ==
    pc = "cancelled" =>
        \A k \in KeysSeen : HasOpenInterval(k) <=> ~LastObs(k).is_available

\* the scheduler processes, the running one first
Processes == << Running >> \o parked

\* the keys for which some process is between its observation insert and
\* its interval write
BusyKeys ==
    { <<Processes[i].plans[1].plan_code, Processes[i].instance, Processes[i].avail.datacenter>> :
        i \in { j \in DOMAIN Processes : Processes[j].pc \in {"track", "mark"} } }

\* the intervals of key k are those of its runs of unavailable observations
RunsHaveIntervals(k) ==
    LET obs == ObsOf(k)
        iv == IntervalsOf(k)
    IN /\ Len(iv) = Cardinality(RunStarts(obs))
       /\ \A i \in RunStarts(obs) : \E n \in DOMAIN iv :
            /\ iv[n].out_of_stock_since = obs[i].checked_at
            /\ iv[n].returned_to_stock_at = RunEnd(obs, i)

\* the step writes rows of the running process's subsidiary only
WritesOwnSubsidiary ==
    /\ Len(inventory_status') >= Len(inventory_status)
    /\ \A i \in DOMAIN inventory_status' :
         IF i \in DOMAIN inventory_status
         THEN inventory_status'[i] = inventory_status[i]
         ELSE inventory_status'[i].subsidiary = instance
    /\ Len(out_of_stock_tracking') >= Len(out_of_stock_tracking)
    /\ \A i \in DOMAIN out_of_stock_tracking' :
         \/ /\ i \in DOMAIN out_of_stock_tracking
            /\ out_of_stock_tracking'[i] = out_of_stock_tracking[i]
         \/ out_of_stock_tracking'[i].subsidiary = instance
    /\ \A f \in DOMAIN fanouts' :
         \/ /\ f \in DOMAIN fanouts
            /\ fanouts'[f] = fanouts[f]
         \/ fanouts'[f].subsidiary = instance
    /\ \A l \in datacenter_locations' \ datacenter_locations : l[2] = instance

\* C19: with one scheduler per subsidiary running in any interleaving, the
\* observations and intervals of a (plan, subsidiary, datacenter) key are
\* written by the scheduler of that subsidiary only, and what each scheduler
\* produces is what it produces alone: for every key one interval per run of
\* unavailable observations, opened and closed at the key's own
\* observations, at most one of them open, and a fanout for a closed
\* interval exactly when its duration reaches the threshold read.
C19_InstancesIndependent ==
    /\ [][WritesOwnSubsidiary]_vars
    /\ [](\A k \in KeysSeen \ BusyKeys : RunsHaveIntervals(k))
    /\ [](\A n \in DOMAIN gate_log : \A i \in ClosedBy(gate_log[n]) :
             FanoutFor(gate_log[n]) <=> Duration(i) >= gate_log[n].threshold)
    /\ [](\A f, g \in DOMAIN fanouts :
             (KeyOf(fanouts[f]) = KeyOf(fanouts[g]) /\ fanouts[f].at = fanouts[g].at) => f = g)

\* Both schedulers have observed vps-1 / dc1 out of stock and then back, their
\* rows alternating in the table; each key has its own closed interval and
\* its own completed fanout.
C19_Witness ==
    /\ Len(inventory_status) = 4
    /\ inventory_status[1].subsidiary # inventory_status[2].subsidiary
    /\ inventory_status[2].subsidiary # inventory_status[3].subsidiary
    /\ inventory_status[3].subsidiary # inventory_status[4].subsidiary
    /\ \A i \in DOMAIN inventory_status : inventory_status[i].is_available <=> i > 2
    /\ Len(out_of_stock_tracking) = 2
    /\ \A i \in DOMAIN out_of_stock_tracking :
         out_of_stock_tracking[i].returned_to_stock_at # None
    /\ Len(fanouts) = 2
    /\ KeyOf(fanouts[1]) # KeyOf(fanouts[2])
    /\ fanouts[1].done
    /\ fanouts[2].done
    /\ Len(http_log) = 2

\* The length of one round of the loop of a scheduler that checks the given
\* subsidiaries: the pause after each of their plans, then the sleep.
RECURSIVE PlanPauses(_)
PlanPauses(list) ==
    IF list = << >> THEN 0
    ELSE Len(get_monitored_plans(Head(list))) * PlanPauseSeconds + PlanPauses(Tail(list))

CyclePeriod(list) == PlanPauses(list) + get_check_interval

\* the rounds interval i of the multi-subsidiary scheduler lasted
RoundsOf(i) ==
    (out_of_stock_tracking[i].returned_to_stock_at[1]
       - out_of_stock_tracking[i].out_of_stock_since) \div CyclePeriod(subsidiaries)

\* The duration a scheduler bound to the interval's subsidiary alone measures
\* for interval i from the same readings: as many rounds, each of its own length.
DurationAlone(i) ==
    (RoundsOf(i) * CyclePeriod(<< out_of_stock_tracking[i].subsidiary >>)) \div SecondsPerMinute

\* every key is observed once per round of the multi-subsidiary scheduler
OncePerRound(k) ==
    \A i \in DOMAIN ObsOf(k) :
        i > 1 =>
          /\ ObsOf(k)[i].checked_at > ObsOf(k)[i - 1].checked_at
          /\ (ObsOf(k)[i].checked_at - ObsOf(k)[i - 1].checked_at)
                % CyclePeriod(subsidiaries) = 0

\* C20 as stated: the multi-subsidiary scheduler produces for every key what
\* the single-subsidiary scheduler of the key's subsidiary produces from the
\* same fetch results: the same observations and interval opens and closes,
\* and a fanout for a closed interval exactly when that scheduler issues one,
\* that is, when the duration it measures reaches the threshold.
C20_TopologiesEquivalent ==
    /\ \A k \in KeysSeen \ BusyKeys : RunsHaveIntervals(k)
    /\ \A n \in DOMAIN gate_log : \A i \in ClosedBy(gate_log[n]) :
          FanoutFor(gate_log[n]) <=> DurationAlone(i) >= gate_log[n].threshold

\* C20 (amended): the multi-subsidiary scheduler applies to every key the
\* per-target logic of the single-subsidiary scheduler: it observes the key
\* once per round under the key's own subsidiary, keeps one interval per run
\* of unavailable observations, opened and closed at the key's own
\* observations, and issues a fanout for a closed interval exactly when the
\* duration it measured reaches the threshold; its fanouts are those of the
\* single-subsidiary scheduler wherever the two measured durations lie on
\* the same side of the threshold.
C20_SamePerTargetLogic ==
    /\ \A k \in KeysSeen : OncePerRound(k)
    /\ \A k \in KeysSeen \ BusyKeys : RunsHaveIntervals(k)
    /\ \A n \in DOMAIN gate_log : \A i \in ClosedBy(gate_log[n]) :
          /\ FanoutFor(gate_log[n]) <=> Duration(i) >= gate_log[n].threshold
          /\ (Duration(i) >= gate_log[n].threshold <=> DurationAlone(i) >= gate_log[n].threshold)
               => (FanoutFor(gate_log[n]) <=> DurationAlone(i) >= gate_log[n].threshold)

\* The multi-subsidiary scheduler has seen vps-1 / dc1 of FR out of stock in
\* one round and back in the next, with DE checked in between: the interval
\* lasted one round of 60 seconds and its fanout was issued, while a
\* scheduler bound to FR alone measures 59 seconds, below the threshold.
C20_Witness ==
    /\ Len(ObsOf(<<"vps-1", "FR", "dc1">>)) = 2
    /\ Len(ObsOf(<<"vps-1", "DE", "dc1">>)) >= 1
    /\ \E i \in DOMAIN out_of_stock_tracking :
         /\ KeyOf(out_of_stock_tracking[i]) = <<"vps-1", "FR", "dc1">>
         /\ out_of_stock_tracking[i].returned_to_stock_at # None
         /\ RoundsOf(i) = 1
         /\ Duration(i) = 1
         /\ DurationAlone(i) = 0
    /\ \E f \in DOMAIN fanouts :
         /\ KeyOf(fanouts[f]) = <<"vps-1", "FR", "dc1">>
         /\ fanouts[f].done

\* the users' endpoints that the f-th fanout has posted to
DeliveredTo(f) ==
    LET posts == { [ id |-> http_log[p].webhook_id, user_id |-> http_log[p].user_id,
                     url |-> http_log[p].url ] :
                     p \in { q \in DOMAIN http_log : http_log[q].fanout = f } }
    IN { w \in DOMAIN user_webhooks :
           [ id |-> Some(user_webhooks[w].id), user_id |-> Some(user_webhooks[w].user_id),
             url |-> user_webhooks[w].webhook_url ] \in posts }

\* user u is active and holds a subscription to the plan with
\* notify_on_available true whose subsidiary is unset or equals the region
Entitled(u, plan, region) ==
    /\ \E a \in users : a.id = u /\ a.is_active
    /\ \E b \in user_plan_subscriptions :
         /\ b.user_id = u
         /\ b.plan_code = plan
         /\ b.notify_on_available
         /\ (b.subsidiary = None \/ b.subsidiary = Some(region))

\* C21: in a completed fanout for plan P in region R an endpoint has received
\* a per-user delivery iff it is an active webhook of an active user who
\* holds a subscription to P with notify_on_available true and a subsidiary
\* unset or equal to R; while the fanout runs, nothing else has one.
C21_RecipientsExactlySubscribers ==
    \A f \in DOMAIN fanouts :
        LET delivered == DeliveredTo(f) IN
        /\ \A w \in DOMAIN user_webhooks :
             LET ok == /\ user_webhooks[w].is_active
                       /\ Entitled(user_webhooks[w].user_id, fanouts[f].plan_code,
                                   fanouts[f].subsidiary)
             IN /\ w \in delivered => ok
                /\ fanouts[f].done => (ok => w \in delivered)
        /\ \A p \in PostsOf(f) : http_log[p].user_id # None =>
              \E v \in delivered : http_log[p].webhook_id = Some(user_webhooks[v].id)

\* A fanout for vps-1 in FR is complete: the two active webhooks of user 1
\* and the webhook of user 4 (subscribed for FR) have a delivery; the
\* inactive webhook of user 1, the webhook of user 2 (subscribed for US, and
\* for FR with notifications off) and that of the inactive user 3 have none.
C21_Witness ==
    \E f \in DOMAIN fanouts :
        /\ fanouts[f].done
        /\ fanouts[f].subsidiary = "FR"
        /\ { user_webhooks[w].id : w \in DeliveredTo(f) } = {1, 2, 6}
        /\ Cardinality(PostsOf(f)) = 3

\* the rows of monitored_plans that are enabled for the scheduler's subsidiary
EnabledHere == { p \in DOMAIN monitored_plans :
                   monitored_plans[p].enabled /\ monitored_plans[p].subsidiary = instance }

\* the list holds every enabled plan of the subsidiary once and nothing else
EachEnabledPlanOnce(list) ==
    /\ Len(list) = Cardinality(EnabledHere)
    /\ \A p \in EnabledHere :
         Cardinality({ i \in DOMAIN list : list[i].plan_code = monitored_plans[p].plan_code
                                             /\ list[i].subsidiary = instance }) = 1

\* row r is about an enabled plan of the scheduler's subsidiary
OfEnabledPlan(r) ==
    \E p \in EnabledHere : monitored_plans[p].plan_code = r.plan_code /\ r.subsidiary = instance

\* C22: a check cycle starts with the list of the plans enabled for the
\* instance's subsidiary, each once; the scheduler leaves the top of its loop
\* only to fetch the first plan of the list (and then runs the detection on
\* what was fetched) or, the list being empty, to end the cycle, and comes
\* back to it only with that plan removed: every enabled plan is checked
\* exactly once per cycle.  No observation, interval, notification or POST
\* is about a plan that is disabled or of another subsidiary.
C22_EnabledPlansOncePerCycle ==
    /\ [][pc = "cycle" /\ pc' # "cycle" => pc' = "plan" /\ EachEnabledPlanOnce(plans')]_vars
    /\ [][pc = "plan" /\ pc' # "plan" =>
             \/ plans # << >> /\ plans' = plans /\ pc' \in {"entry", "pause"}
             \/ plans = << >> /\ pc' = "sleep"]_vars
    /\ [][pc # "plan" /\ pc # "cycle" /\ pc' = "plan" => pc = "pause" /\ plans' = Tail(plans)]_vars
    /\ [][pc \notin {"plan", "pause", "cycle", "sleep"} => plans' = plans]_vars
    /\ [][pc = "sleep" => pc' = "cycle"]_vars
    /\ [](\A i \in DOMAIN inventory_status : OfEnabledPlan(inventory_status[i]))
    /\ [](\A i \in DOMAIN out_of_stock_tracking : OfEnabledPlan(out_of_stock_tracking[i]))
    /\ [](\A i \in DOMAIN notification_history : OfEnabledPlan(notification_history[i]))
    /\ [](\A i \in DOMAIN http_log : OfEnabledPlan(http_log[i]))
    /\ [](\A i \in DOMAIN fanouts : OfEnabledPlan(fanouts[i]))
    /\ [](pc \in {"entry", "last", "save", "track", "mark", "threshold", "default",
                  "subscribers", "user", "pause"} =>
            plans # << >> /\ OfEnabledPlan([plan_code |-> plan_code, subsidiary |-> plans[1].subsidiary]))

\* The CA scheduler has ended its first cycle: vps-1 and vps-2, the two
\* enabled plans of CA, have their observation taken in that cycle, one
\* second apart, and the disabled vps-3 has none.
C22_Witness ==
    /\ pc = "sleep"
    /\ cycles = 0
    /\ instance = "CA"
    /\ Cardinality(EnabledHere) = 2
    /\ Len(inventory_status) = 2
    /\ inventory_status[1].plan_code = "vps-1"
    /\ inventory_status[2].plan_code = "vps-2"
    /\ inventory_status[2].checked_at = inventory_status[1].checked_at + PlanPauseSeconds

\* C23: with two check passes for the same key overlapping, in every
\* interleaving of the SELECT and INSERT of their track_out_of_stock calls, a
\* key has at most one row with returned_to_stock_at null.
C23_AtMostOneOpenUnderOverlap ==
    \A k \in KeysSeen :
        Cardinality({ i \in DOMAIN out_of_stock_tracking :
                        /\ KeyOf(out_of_stock_tracking[i]) = k
                        /\ out_of_stock_tracking[i].returned_to_stock_at = None }) <= 1

\* the gating decisions and the fanouts for key k taken at time t
GatesAt(k, t) == { n \in DOMAIN gate_log : KeyOf(gate_log[n]) = k /\ gate_log[n].at = t }
FanoutsAt(k, t) == { f \in DOMAIN fanouts : KeyOf(fanouts[f]) = k /\ fanouts[f].at = t }

\* C24: a fanout fires only for an observation that itself closed an open
\* interval of its key: it has exactly one interval closed at its time, an
\* available observation of the key at that time and an earlier observation
\* of the key, and reports that interval's duration.  The first observation
\* of a key reaches no gate and fires nothing; an interval starts with it
\* only if it is unavailable, and does so once track_out_of_stock has
\* returned.  A transition that finds no open interval yields no duration
\* and no fanout.
C24_EventOnlyOnClosingObservation ==
    /\ \A f \in DOMAIN fanouts :
         /\ Cardinality(ClosedBy(fanouts[f])) = 1
         /\ \A i \in ClosedBy(fanouts[f]) : fanouts[f].minutes = Duration(i)
         /\ LET obs == ObsOf(KeyOf(fanouts[f])) IN
            \E b \in DOMAIN obs :
              /\ obs[b].is_available
              /\ obs[b].checked_at = fanouts[f].at
              /\ \E a \in 1..(b - 1) : ~obs[a].is_available
    /\ \A k \in KeysSeen :
         LET first == ObsOf(k)[1] IN
         /\ GatesAt(k, first.checked_at) = {}
         /\ FanoutsAt(k, first.checked_at) = {}
         /\ \A i \in DOMAIN out_of_stock_tracking :
              ( /\ KeyOf(out_of_stock_tracking[i]) = k
                /\ out_of_stock_tracking[i].out_of_stock_since = first.checked_at )
                => ~first.is_available
         /\ (~first.is_available /\ faults = 0 /\ k \notin BusyKeys) =>
              \E i \in DOMAIN out_of_stock_tracking :
                  /\ KeyOf(out_of_stock_tracking[i]) = k
                  /\ out_of_stock_tracking[i].out_of_stock_since = first.checked_at
    /\ \A n \in DOMAIN gate_log :
         ClosedBy(gate_log[n]) = {} =>
             /\ gate_log[n].minutes = None
             /\ ~FanoutFor(gate_log[n])

\* track_out_of_stock raised for a key first seen out of stock, so that the
\* key's return to stock found no open interval: its gate got no duration
\* and fired nothing, while another key's return closed its interval and
\* fired.
C24_Witness ==
    /\ faults = 1
    /\ \E n \in DOMAIN gate_log :
         /\ ClosedBy(gate_log[n]) = {}
         /\ gate_log[n].minutes = None
         /\ IntervalsOf(KeyOf(gate_log[n])) = << >>
         /\ Len(ObsOf(KeyOf(gate_log[n]))) = 2
    /\ \E f \in DOMAIN fanouts : fanouts[f].done

\* The latest stored availability of the datacenter of the entry in
\* progress, the datacenter being the one the upstream lists under the
\* entry's name and code.
LastOfDatacenter ==
    LET idx == { i \in DOMAIN inventory_status :
                   /\ inventory_status[i].plan_code = plan_code
                   /\ inventory_status[i].subsidiary = Subsidiary
                   /\ inventory_status[i].datacenter = avail.datacenter
                   /\ inventory_status[i].datacenter_code = avail.datacenter_code }
    IN IF idx = {} THEN None
       ELSE Some(inventory_status[CHOOSE i \in idx : \A j \in idx : j <= i].is_available)

\* C25: check_plan compares the reading of a datacenter with the last stored
\* observation of that same datacenter only, and what it writes for it
\* leaves the intervals and events of every other datacenter alone: the
\* prior state it branches on is that datacenter's, and every interval is
\* closed by an observation of the datacenter whose observation opened it;
\* for every batch, entries without name or code included.
C25_OnlySameDatacenterCompared ==
    /\ pc = "save" => was_available = LastOfDatacenter
    /\ \A i \in DOMAIN out_of_stock_tracking :
         out_of_stock_tracking[i].returned_to_stock_at # None =>
           LET obs == ObsOf(KeyOf(out_of_stock_tracking[i])) IN
           \E a, b \in DOMAIN obs :
               /\ ~obs[a].is_available
               /\ obs[a].checked_at = out_of_stock_tracking[i].out_of_stock_since
               /\ obs[b].is_available
               /\ obs[b].checked_at = out_of_stock_tracking[i].returned_to_stock_at[1]
               /\ obs[a].datacenter_code = obs[b].datacenter_code

\* the default sink is configured
DefaultConfigured == get_config("discord_webhook_url") # None

\* C26: within a fanout, whenever a per-user delivery has been attempted
\* and the default sink is configured, the POST to the default sink and its
\* two history records are there already, ahead of every per-user POST and
\* record of the fanout.  Without a default sink the summary reports it as
\* not sent, and every recipient still gets its delivery.
C26_DefaultSinkFirst ==
    \A f \in DOMAIN fanouts :
        /\ fanouts[f].default_sent => DefaultConfigured
        /\ (fanouts[f].recipients # None \/ PostsOf(f) # {}) =>
              (fanouts[f].default_sent <=> DefaultConfigured)
        /\ fanouts[f].default_sent =>
              /\ \E q \in PostsOf(f) :
                   /\ http_log[q].user_id = None
                   /\ http_log[q].url = get_config("discord_webhook_url")[1]
                   /\ \A p \in PostsOf(f) : p # q => (q < p /\ http_log[p].user_id # None)
              /\ \E n \in DOMAIN notification_history : notification_history[n].fanout = f
              /\ \E h \in RowsOf(f) :
                   /\ user_notification_history[h].is_default_webhook
                   /\ \A g \in RowsOf(f) :
                        g # h => (h < g /\ ~user_notification_history[g].is_default_webhook)
        /\ ~fanouts[f].default_sent =>
              /\ \A p \in PostsOf(f) : http_log[p].user_id # None
              /\ \A n \in DOMAIN notification_history : notification_history[n].fanout # f
              /\ \A h \in RowsOf(f) : ~user_notification_history[h].is_default_webhook
        /\ (fanouts[f].done /\ ~DefaultConfigured) =>
              \A r \in fanouts[f].recipients[1] :
                  \E p \in PostsOf(f) : http_log[p].webhook_id = Some(r.webhook_id)

\* A fanout with the default sink configured has made its first per-user
\* delivery: the default POST and its records precede it.
C26_Witness ==
    \E f \in DOMAIN fanouts :
        /\ fanouts[f].default_sent
        /\ Cardinality(PostsOf(f)) >= 2
        /\ \E p \in PostsOf(f) : http_log[p].user_id # None
        /\ \E n \in DOMAIN notification_history : notification_history[n].fanout = f

\* C27: whenever check_plan is not in the middle of a datacenter (between
\* its observation insert and its interval write), every key has an open
\* interval iff its latest stored observation is unavailable, and no
\* interval belongs to a key without observation; from the empty store on,
\* after every step.
C27_OpenIffLastUnavailable ==
    /\ \A k \in KeysSeen \ BusyKeys :
         HasOpenInterval(k) <=> ~LastObs(k).is_available
    /\ \A i \in DOMAIN out_of_stock_tracking : KeyOf(out_of_stock_tracking[i]) \in KeysSeen

\* A cycle has ended with one key gone out of stock after an available
\* observation, its interval open, and another key back in stock, its
\* interval closed.
C27_Witness ==
    /\ pc = "sleep"
    /\ \E k \in KeysSeen :
         /\ Len(ObsOf(k)) >= 2
         /\ ObsOf(k)[1].is_available
         /\ ~LastObs(k).is_available
         /\ HasOpenInterval(k)
    /\ \E k \in KeysSeen :
         /\ LastObs(k).is_available
         /\ IntervalsOf(k) # << >>
         /\ ~HasOpenInterval(k)

\* C28: every closed interval is one continuous out-of-stock run: no
\* available observation of its key is stored strictly between its start
\* and its close, so that the reported duration includes no time the key was
\* seen in stock; also after a cycle was cut short between the observation
\* insert and the interval update.
C28_IntervalIsOneRun ==
    \A i \in DOMAIN out_of_stock_tracking :
        out_of_stock_tracking[i].returned_to_stock_at # None =>
          \A j \in DOMAIN inventory_status :
              ( /\ KeyOf(inventory_status[j]) = KeyOf(out_of_stock_tracking[i])
                /\ inventory_status[j].is_available )
                => ~( /\ out_of_stock_tracking[i].out_of_stock_since < inventory_status[j].checked_at
                      /\ inventory_status[j].checked_at
                            < out_of_stock_tracking[i].returned_to_stock_at[1] )

\* the fanouts dispatched for the closing of interval i
FanoutsOf(i) ==
    { f \in DOMAIN fanouts :
        /\ KeyOf(fanouts[f]) = KeyOf(out_of_stock_tracking[i])
        /\ out_of_stock_tracking[i].returned_to_stock_at = Some(fanouts[f].at) }

\* the check passes that obtained a duration at the closing of interval i
DurationsOf(i) ==
    { n \in DOMAIN gate_log :
        /\ KeyOf(gate_log[n]) = KeyOf(out_of_stock_tracking[i])
        /\ out_of_stock_tracking[i].returned_to_stock_at = Some(gate_log[n].at)
        /\ gate_log[n].minutes # None }

\* C29: an out-of-stock interval triggers at most one fanout: a closed
\* interval has at most one fanout, dispatched at its close, and with two
\* check passes for the key overlapping at most one of them obtains its
\* duration and dispatches.
C29_OneFanoutPerInterval ==
    \A i \in DOMAIN out_of_stock_tracking :
        /\ Cardinality(FanoutsOf(i)) <= 1
        /\ Cardinality(DurationsOf(i)) <= 1

\* the active webhooks of user u
ActiveWebhooksOf(u) ==
    { w \in DOMAIN user_webhooks : user_webhooks[w].user_id = u /\ user_webhooks[w].is_active }

\* C30: within one fanout each (user, active webhook) pair of an entitled
\* user has at most one delivery attempt and one history row, and exactly
\* one of each when the fanout is complete, however many of the user's
\* subscriptions match; a user with m active webhooks has exactly m attempts.
C30_OneAttemptPerPair ==
    \A f \in DOMAIN fanouts :
        LET posts == PostsOf(f)
            rows == RowsOf(f)
        IN \A u \in users : Entitled(u.id, fanouts[f].plan_code, fanouts[f].subsidiary) =>
             LET active == ActiveWebhooksOf(u.id)
                 mine == { p \in posts : http_log[p].user_id = Some(u.id) }
                 logged == { h \in rows : user_notification_history[h].user_id = Some(u.id) }
             IN /\ \A w \in active :
                      LET attempts == Cardinality({ p \in mine :
                                         http_log[p].webhook_id = Some(user_webhooks[w].id) })
                          written == Cardinality({ h \in logged :
                                         user_notification_history[h].webhook_id
                                            = Some(user_webhooks[w].id) })
                      IN /\ attempts <= 1
                         /\ written <= 1
                         /\ fanouts[f].done => attempts = 1 /\ written = 1
                /\ fanouts[f].done =>
                      /\ Cardinality(mine) = Cardinality(active)
                      /\ Cardinality(logged) = Cardinality(active)

\* A fanout for vps-1 in FR is complete; user 1 holds an all-region and an
\* FR subscription to the plan and has two active webhooks and an inactive
\* one: the fanout made two attempts to user 1 and wrote two rows.
C30_Witness ==
    \E f \in DOMAIN fanouts :
        /\ fanouts[f].done
        /\ fanouts[f].subsidiary = "FR"
        /\ Cardinality({ b \in user_plan_subscriptions :
                           /\ b.user_id = 1
                           /\ b.plan_code = fanouts[f].plan_code
                           /\ b.notify_on_available
                           /\ b.subsidiary \in {None, Some("FR")} }) = 2
        /\ Cardinality(ActiveWebhooksOf(1)) = 2
        /\ Cardinality({ w \in DOMAIN user_webhooks : user_webhooks[w].user_id = 1 }) = 3
        /\ Cardinality({ p \in PostsOf(f) : http_log[p].user_id = Some(1) }) = 2
        /\ Cardinality({ h \in RowsOf(f) : user_notification_history[h].user_id = Some(1) }) = 2
====
